---------------------------- MODULE Spec2Model ----------------------------
(***************************************************************************)
(* Job dispatch and completion barrier of the instance-subset pipeline     *)
(* (Slurm/generate_instance_subset.py, Slurm/solve_instance.py,            *)
(* utilities.py).  The controller, the batch scheduler, the worker jobs    *)
(* and the sentinel job are processes that share only the filesystem.      *)
(*                                                                         *)
(* Strings are sequences of one-character strings where the code inspects  *)
(* characters (the scheduler's acknowledgment), and sequences of string    *)
(* tokens where it only joins and splits on separators (paths).            *)
(***************************************************************************)
EXTENDS Integers, Sequences, FiniteSets, TLC

(***************************************************************************)
(* Bounds of the model.                                                    *)
(***************************************************************************)
\* at most this many instance files are present in instance_dir
MaxCandidates == 2
\* at most this many worker jobs of an earlier run are still on the scheduler
MaxLingering == 1
\* at most this many instance files are present when the pipeline is run again
MaxRerunCandidates == 1

(***************************************************************************)
(* parameters.py                                                           *)
(***************************************************************************)
TRAINING_SET_TIME_LIMIT_WITHOUT_SOLUTION == 120
TRAINING_SET_TIME_LIMIT_WITH_SOLUTION == 120
TRAINING_SET_MIN_TIME_LIMIT == 5
TRAINING_SET_PRESOLVE_TIME_LIMIT == 10
TRAINING_SET_MIN_NODES == 50
TRAINING_SET_MAX_NODES == 20000
\* 1e+8, the largest time limit run_python_slurm_job accepts
MAX_TIME_LIMIT == 100000000
\* time_limit of the sentinel job
SENTINEL_TIME_LIMIT == 10

(***************************************************************************)
(* Strings                                                                 *)
(***************************************************************************)
Last(s) == s[Len(s)]

\* s.endswith(suffix), for a one-token suffix
EndsWith(s, tok) == Len(s) > 0 /\ Last(s) = tok

\* sub in s
Contains(s, sub) ==
    \E k \in 1..(Len(s) - Len(sub) + 1) : SubSeq(s, k, k + Len(sub) - 1) = sub

\* s.split(c)[0]
SplitFirst(s, c) ==
    IF \E k \in 1..Len(s) : s[k] = c
    THEN LET k == CHOOSE k \in 1..Len(s) : s[k] = c /\ \A j \in 1..(k - 1) : s[j] # c
         IN  SubSeq(s, 1, k - 1)
    ELSE s

\* s.split(c)[-1]
SplitLast(s, c) ==
    IF \E k \in 1..Len(s) : s[k] = c
    THEN LET k == CHOOSE k \in 1..Len(s) : s[k] = c /\ \A j \in (k + 1)..Len(s) : s[j] # c
         IN  SubSeq(s, k + 1, Len(s))
    ELSE s

DigitChars == <<"0", "1", "2", "3", "4", "5", "6", "7", "8", "9">>

\* str(n) / '{}'.format(n) of a non-negative integer
RECURSIVE str_int(_)
str_int(n) ==
    IF n < 10 THEN <<DigitChars[n + 1]>>
    ELSE str_int(n \div 10) \o <<DigitChars[(n % 10) + 1]>>

IsDigit(c) == \E d \in 1..10 : DigitChars[d] = c
DigitValue(c) == (CHOOSE d \in 1..10 : DigitChars[d] = c) - 1

\* int(s) succeeds (signs and underscores never occur in the lines modelled)
IsInt(s) == Len(s) > 0 /\ \A k \in 1..Len(s) : IsDigit(s[k])

RECURSIVE int(_)
int(s) ==
    IF Len(s) = 0 THEN 0
    ELSE 10 * int(SubSeq(s, 1, Len(s) - 1)) + DigitValue(Last(s))

WhiteSpace == {" ", "\n"}

\* line.rstrip()
RECURSIVE rstrip(_)
rstrip(s) ==
    IF Len(s) > 0 /\ Last(s) \in WhiteSpace THEN rstrip(SubSeq(s, 1, Len(s) - 1)) ELSE s

\* str(b) of a bytes object b: its repr, b'...'
str_bytes(b) == <<"b", "'">> \o b \o <<"'">>

(***************************************************************************)
(* The scheduler's acknowledgment (utilities.py, run_python_slurm_job)     *)
(***************************************************************************)
SUBMITTED_BATCH_JOB ==
    <<"S", "u", "b", "m", "i", "t", "t", "e", "d", " ",
      "b", "a", "t", "c", "h", " ", "j", "o", "b">>

\* faulty variant: the loop over the output has no break and keeps the last line
JobLine_LastLine(stdout) ==
    IF Len(stdout) = 0 THEN <<>> ELSE str_bytes(rstrip(stdout[Len(stdout)]))

\* the first line of the scheduler's output as the code holds it
JobLine(stdout) == IF Len(stdout) = 0 THEN <<>> ELSE str_bytes(rstrip(stdout[1]))

JobIdToken(job_line) == SplitFirst(SplitLast(job_line, " "), "'")

NoHandle == [ok |-> FALSE, job_id |-> 0]

\* lines 211-217: the assertion on the token, then int() of the last word
ParseAck(stdout) ==
    LET job_line == JobLine(stdout) IN
    IF ~Contains(job_line, SUBMITTED_BATCH_JOB) THEN NoHandle
    ELSE IF ~IsInt(JobIdToken(job_line)) THEN NoHandle
    ELSE [ok |-> TRUE, job_id |-> int(JobIdToken(job_line))]

(***************************************************************************)
(* Paths: a path is the sequence of its directory and the tokens of its    *)
(* file name.  Every directory the pipeline is given is one token.         *)
(***************************************************************************)
\* os.path.join(parent_dir, name)
join(parent_dir, name) == <<parent_dir>> \o name

\* os.path.dirname(path)
dirname(path) == IF Len(path) = 0 THEN "" ELSE Head(path)

\* Python's None, and '{}'.format(arg) of a path or None (line 205)
PyNone == <<>>
FormatArg(arg) == IF arg = PyNone THEN <<"None">> ELSE arg

INSTANCE_DIR == "instance_dir"
SOLUTION_DIR == "solution_dir"
INSTANCE_SUBSET_DIR == "instance_subset_dir"
OUTFILES_DIR == "outfiles_dir"
RESULTS_DIR == "results_dir"

SOLVE_INSTANCE_PY == <<"Slurm", "solve_instance", ".py">>
SAFETY_CHECK_PY == <<"Slurm", "safety_check", ".py">>

\* The instance files that may lie in instance_dir, in sorted order.
InstancePool == << <<"a", ".mps">>, <<"a", ".mps", ".gz">>, <<"b", ".mps">> >>

\* utilities.py, get_filename with rand_seed and permutation_seed given
get_filename(parent_dir, instance, rand_seed, permutation_seed, ext) ==
    join(parent_dir,
         instance \o <<"__seed__">> \o str_int(rand_seed)
                  \o <<"__permute__">> \o str_int(permutation_seed)
                  \o <<".", ext>>)

\* generate_instance_subset.py lines 35-37
InstanceFile(instance_path) == Tail(instance_path)
InstanceName(instance_file) == SplitFirst(instance_file, ".mps")
SolutionPath(solution_dir, instance) == join(solution_dir, instance \o <<".sol">>)

\* lines 52-53: the worker's output-capture path, %j left for the scheduler
WorkerOutfile(outfiles_dir, instance, r, p) ==
    join(outfiles_dir,
         <<"%j", "__">> \o instance \o <<"__">> \o str_int(r) \o <<"__">> \o str_int(p)
                        \o <<".out">>)

\* lines 107-112
SafetyFileNoExt(outfiles_dir) == join(outfiles_dir, <<"safety_check">>)
SafetyOut(outfiles_dir) == SafetyFileNoExt(outfiles_dir) \o <<".out">>
SafetyTxt(outfiles_dir) == SafetyFileNoExt(outfiles_dir) \o <<".txt">>

(***************************************************************************)
(* State                                                                   *)
(***************************************************************************)
VARIABLES
    fs,                 \* the files: path -> content
    dirs,               \* the directories that exist
    jobs,               \* the scheduler's jobs that have not ended: id -> job
    next_id,            \* the identifier the scheduler gives the next job
    pc,                 \* the controller's position
    phase,              \* which call of filter_instances is running (1..3)
    i,                  \* loop index of the submission and collection loops
    slurm_job_ids,      \* handles collected in this phase
    instance_paths,     \* the CandidateSet given to this phase
    good_instance_ids,  \* indices accepted so far in the collection loop
    sentinel_id,        \* history: the handle of this phase's sentinel (0: none)
    readLog,            \* history: the records this phase's collection read
    request,            \* a direct call of run_python_slurm_job: its arguments
    result              \* a direct call of run_python_slurm_job: its outcome

fsVars == <<fs, dirs>>
schedVars == <<jobs, next_id>>
ctlVars == <<pc, phase, i, slurm_job_ids, instance_paths, good_instance_ids>>
histVars == <<sentinel_id, readLog>>
callVars == <<request, result>>
vars == <<fs, dirs, jobs, next_id, pc, phase, i, slurm_job_ids, instance_paths,
          good_instance_ids, sentinel_id, readLog, request, result>>

(***************************************************************************)
(* Filesystem                                                              *)
(***************************************************************************)
NoData == [status |-> "none", num_nodes |-> 0, solve_time |-> 0, presolve_time |-> 0]

\* this run of the pipeline, and an earlier run on the same directories
THIS_RUN == "this_run"
EARLIER_RUN == "earlier_run"

\* content of a file: the job that wrote it (0: not a job) with the run and
\* phase that submitted the job, whether the write was finished, and the
\* record the file holds
File(writer, r, ph, complete, data) ==
    [writer |-> writer, run |-> r, phase |-> ph, complete |-> complete, data |-> data]
PlainFile == File(0, EARLIER_RUN, 0, TRUE, NoData)

isfile(path) == path \in DOMAIN fs
isdir(d) == d \in dirs

WriteFile(f, path, content) ==
    [q \in (DOMAIN f) \cup {path} |-> IF q = path THEN content ELSE f[q]]

RemoveFile(f, path) == [q \in (DOMAIN f) \ {path} |-> f[q]]

FilesIn(f, d) == {q \in DOMAIN f : dirname(q) = d}

\* a hygiene that removes nothing
remove_temp_files_Nothing(f, temp_dir) == f

\* utilities.py, remove_temp_files: os.listdir, then os.remove of each file
remove_temp_files(f, temp_dir) == [q \in (DOMAIN f) \ FilesIn(f, temp_dir) |-> f[q]]

\* sorted(os.listdir(d)) for a directory that holds only files of InstancePool
SortedListing(f, d) == SelectSeq(InstancePool, LAMBDA name : join(d, name) \in DOMAIN f)

(***************************************************************************)
(* Job Submitter (utilities.py, run_python_slurm_job)                      *)
(***************************************************************************)
\* a Python value with its type, for the type check of line 149
PyInt(n) == [type |-> "int", val |-> n]

\* faulty variant: the output-capture path is not tested for existence
Preconditions_NoGuard(python_file, outfile, time_limit) ==
    /\ isfile(python_file) /\ EndsWith(python_file, ".py")
    /\ EndsWith(outfile, ".out")
    /\ isdir(dirname(outfile))
    /\ time_limit.type = "int" /\ 0 <= time_limit.val /\ time_limit.val <= MAX_TIME_LIMIT

\* faulty variant: the time limit has no upper bound
Preconditions_NoUpperBound(python_file, outfile, time_limit) ==
    /\ isfile(python_file) /\ EndsWith(python_file, ".py")
    /\ ~isfile(outfile) /\ EndsWith(outfile, ".out")
    /\ isdir(dirname(outfile))
    /\ time_limit.type = "int" /\ 0 <= time_limit.val

\* lines 146-152: the assertions before anything is sent to the scheduler
Preconditions(python_file, outfile, time_limit) ==
    /\ isfile(python_file) /\ EndsWith(python_file, ".py")
    /\ ~isfile(outfile) /\ EndsWith(outfile, ".out")
    /\ isdir(dirname(outfile))
    /\ time_limit.type = "int" /\ 0 <= time_limit.val /\ time_limit.val <= MAX_TIME_LIMIT

\* the dependencies argument: a list of handles, or None (the default)
PyList(items) == [is_none |-> FALSE, items |-> items]
NoDependencies == [is_none |-> TRUE, items |-> <<>>]

\* lines 144-145: None stands for the empty list
DefaultDependencies(dependencies) ==
    IF dependencies.is_none THEN <<>> ELSE dependencies.items

\* faulty variant: a handle that occurs again later in the list is left out
RECURSIVE JoinWithColon_Unique(_)
JoinWithColon_Unique(dependencies) ==
    IF Len(dependencies) = 0 THEN <<>>
    ELSE IF \E k \in 2..Len(dependencies) : dependencies[k] = Head(dependencies)
    THEN JoinWithColon_Unique(Tail(dependencies))
    ELSE str_int(Head(dependencies)) \o <<":">> \o JoinWithColon_Unique(Tail(dependencies))

\* line 177: ''.join([str(dependency) + ':' for dependency in dependencies])[:-1]
RECURSIVE JoinWithColon(_)
JoinWithColon(dependencies) ==
    IF Len(dependencies) = 0 THEN <<>>
    ELSE str_int(Head(dependencies)) \o <<":">> \o JoinWithColon(Tail(dependencies))

\* faulty variant: the slice is taken of the list and not of the joined
\* string, so the last handle is lost
dependency_str_DropLast(dependencies) ==
    LET joined == JoinWithColon(SubSeq(dependencies, 1, Len(dependencies) - 1))
    IN  SubSeq(joined, 1, Len(joined) - 1)

dependency_str(dependencies) ==
    LET joined == JoinWithColon(dependencies) IN SubSeq(joined, 1, Len(joined) - 1)

AFTERANY == <<"a", "f", "t", "e", "r", "a", "n", "y">>

\* faulty variant: the clause is emitted without the test of line 175
DependencyOptions_Always(dependencies) ==
    << [opt |-> "--dependency", val |-> AFTERANY \o <<":">> \o dependency_str(dependencies)] >>

\* lines 175-178: the dependency clauses of the request (none for no handles)
DependencyOptions(dependencies) ==
    IF Len(dependencies) > 0
    THEN << [opt |-> "--dependency", val |-> AFTERANY \o <<":">> \o dependency_str(dependencies)] >>
    ELSE <<>>

\* lines 158-205: the request sent to the scheduler
Cmd(python_file, job_name, outfile, time_limit, arg_list, dependencies) ==
    [job_name |-> job_name,
     time |-> time_limit.val,
     options |-> DependencyOptions(dependencies),
     output |-> outfile,
     python_file |-> python_file,
     args |-> arg_list]

NoCmd == Cmd(<<>>, <<>>, <<>>, PyInt(0), <<>>, <<>>)

\* The whole call, given the scheduler's answer resp to the request:
\* raised - the call failed; invoked - the scheduler command was run.
run_python_slurm_job(python_file, job_name, outfile, time_limit, arg_list, dependencies, resp) ==
    IF ~Preconditions(python_file, outfile, time_limit)
    THEN [raised |-> TRUE, invoked |-> FALSE, job_id |-> 0, cmd |-> NoCmd]
    ELSE LET ack == ParseAck(resp.stdout)
         IN  [raised |-> ~ack.ok, invoked |-> TRUE, job_id |-> ack.job_id,
              cmd |-> Cmd(python_file, job_name, outfile, time_limit, arg_list,
                          DefaultDependencies(dependencies))]

\* the outcome of a call: whether it raised, the handle, and the request
\* that was sent to the scheduler
Outcome(res) ==
    [raised |-> res.raised, invoked |-> res.invoked, job_id |-> res.job_id, cmd |-> res.cmd]
NoResult == [raised |-> FALSE, invoked |-> FALSE, job_id |-> 0, cmd |-> NoCmd]

(***************************************************************************)
(* The batch scheduler (external): sbatch and the life of a job            *)
(***************************************************************************)
AckLine(id) == SUBMITTED_BATCH_JOB \o <<" ">> \o str_int(id) \o <<"\n">>

\* sbatch accepts the request and names the new job, or rejects it and
\* prints nothing on its standard output
Accept(id) == [accepted |-> TRUE, stdout |-> <<AckLine(id)>>]
Reject == [accepted |-> FALSE, stdout |-> <<>>]
SbatchResponses(id) == {Accept(id), Reject}

\* the identifiers of a ':'-separated list, as the scheduler reads them
RECURSIVE ColonList(_)
ColonList(s) ==
    IF Len(s) = 0 THEN <<>>
    ELSE LET head == SplitFirst(s, ":")
         IN  <<int(head)>> \o ColonList(SubSeq(s, Len(head) + 2, Len(s)))

\* the jobs a request with these options waits for (afterany)
RequestDependencies(options) ==
    IF Len(options) = 0 THEN <<>>
    ELSE ColonList(SubSeq(options[1].val, Len(AFTERANY) + 2, Len(options[1].val)))

NewJob(cmd, r, ph) ==
    [python_file |-> cmd.python_file,
     args |-> cmd.args,
     output |-> cmd.output,
     time |-> cmd.time,
     dependencies |-> RequestDependencies(cmd.options),
     state |-> "pending",
     step |-> "none",
     data |-> NoData,
     run |-> r,
     phase |-> ph]

AddJob(js, id, job) == [k \in (DOMAIN js) \cup {id} |-> IF k = id THEN job ELSE js[k]]

\* faulty variant: a failed call cancels the jobs on the scheduler
Sbatch_CancelOnFailure(js, id, res, resp, r, ph) ==
    IF res.raised THEN <<>>
    ELSE IF res.invoked /\ resp.accepted THEN AddJob(js, id, NewJob(res.cmd, r, ph))
    ELSE js

\* the scheduler's job table after the call: an accepted request is job id
Sbatch(js, id, res, resp, r, ph) ==
    IF res.invoked /\ resp.accepted THEN AddJob(js, id, NewJob(res.cmd, r, ph)) ELSE js

NextId(id, res, resp) == IF res.invoked /\ resp.accepted THEN id + 1 ELSE id

JobIds == DOMAIN jobs

\* a job that was submitted and has reached a terminal state, whether it
\* completed or failed: the scheduler's table no longer holds it
Ended(id) == id \in 1..(next_id - 1) /\ id \notin JobIds

\* afterany: every job waited for has ended, however it ended
DependenciesSatisfied(job) ==
    \A k \in 1..Len(job.dependencies) : job.dependencies[k] \notin JobIds

\* the output-capture path with %j replaced by the job's identifier
OutputPath(job, id) ==
    IF Len(job.output) >= 2 /\ job.output[2] = "%j"
    THEN <<job.output[1]>> \o str_int(id) \o SubSeq(job.output, 3, Len(job.output))
    ELSE job.output

IsWorker(job) == job.python_file = SOLVE_INSTANCE_PY
IsSentinel(job) == job.python_file = SAFETY_CHECK_PY

(***************************************************************************)
(* Jobs running on the cluster                                             *)
(***************************************************************************)
SetJob(id, state, step, data) ==
    [jobs EXCEPT ![id].state = state, ![id].step = step, ![id].data = data]

\* the job has ended (completed or failed)
EndJob(id) == [k \in JobIds \ {id} |-> jobs[k]]

JobFile(id, complete, data) == File(id, jobs[id].run, jobs[id].phase, complete, data)

\* The scheduler starts a pending job whose dependencies are satisfied and
\* opens its output-capture file.
StartJob(id) ==
    /\ jobs[id].state = "pending"
    /\ DependenciesSatisfied(jobs[id])
    /\ jobs' = SetJob(id, "running", "main", NoData)
    /\ fs' = WriteFile(fs, OutputPath(jobs[id], id), JobFile(id, TRUE, NoData))
    /\ UNCHANGED <<dirs, next_id, ctlVars, histVars, callVars>>

\* The scheduler ends a running job: its time limit, its memory limit, a
\* node failure.  Whatever the job has written stays.
KillJob(id) ==
    /\ jobs[id].state = "running"
    /\ jobs' = EndJob(id)
    /\ UNCHANGED <<fsVars, next_id, ctlVars, histVars, callVars>>

\* what the solver may report (scip.optimize is a black box)
SolveOutcomes ==
    { [status |-> "optimal", num_nodes |-> 50, solve_time |-> 5, presolve_time |-> 10],
      [status |-> "timelimit", num_nodes |-> 20001, solve_time |-> 120, presolve_time |-> 11] }

\* utilities.py, str_to_bool of a formatted argument
str_to_bool(word) == word \in {"yes", "true", "t", "1", "True", "TRUE", "Yes", "YES", "T"}

\* solve_instance.py lines 218-224: 'None' stands for no path
ArgPath(arg) == IF arg = <<"None">> THEN PyNone ELSE arg

WorkerStatFile(job) == get_filename(job.args[1], job.args[3], job.args[4], job.args[5], "stats")
WorkerYmlFile(job) == get_filename(job.args[1], job.args[3], job.args[4], job.args[5], "yml")

\* solve_instance.py lines 218-222, 56-63, 127-159: parse the arguments,
\* solve, and assert that there is no statistics file yet
WorkerSolve(id) ==
    LET job == jobs[id]
        solution_path == ArgPath(job.args[9])
        ready == /\ (solution_path # PyNone => isfile(solution_path))
                 /\ job.args[6] > 0
                 /\ isdir(job.args[1])
                 /\ isfile(job.args[2])
                 /\ job.args[3] = InstanceName(InstanceFile(job.args[2]))
                 /\ ~isfile(WorkerStatFile(job))
    IN  /\ job.state = "running" /\ IsWorker(job) /\ job.step = "main"
        /\ IF ready
           THEN \E data \in SolveOutcomes : jobs' = SetJob(id, "running", "solved", data)
           ELSE jobs' = EndJob(id)
        /\ UNCHANGED <<fsVars, next_id, ctlVars, histVars, callVars>>

\* line 160: scip.writeStatistics creates or overwrites the statistics file
WorkerWriteStats(id) ==
    LET job == jobs[id]
    IN  /\ job.state = "running" /\ IsWorker(job) /\ job.step = "solved"
        /\ jobs' = SetJob(id, "running", "stats", job.data)
        /\ fs' = WriteFile(fs, WorkerStatFile(job), JobFile(id, TRUE, NoData))
        /\ UNCHANGED <<dirs, next_id, ctlVars, histVars, callVars>>

\* lines 176-181: remove the statistics unless asked to keep them, open
\* the record file for writing (which creates or truncates it)
WorkerOpenYml(id) ==
    LET job == jobs[id]
        kept == IF str_to_bool(job.args[7]) THEN fs ELSE RemoveFile(fs, WorkerStatFile(job))
    IN  /\ job.state = "running" /\ IsWorker(job) /\ job.step = "stats"
        /\ jobs' = SetJob(id, "running", "open", job.data)
        /\ fs' = WriteFile(kept, WorkerYmlFile(job), JobFile(id, FALSE, NoData))
        /\ UNCHANGED <<dirs, next_id, ctlVars, histVars, callVars>>

\* line 182: yaml.dump into the open file; a file removed or replaced since
\* it was opened is not touched
WorkerDumpYml(id) ==
    LET job == jobs[id]
        yml_file == WorkerYmlFile(job)
    IN  /\ job.state = "running" /\ IsWorker(job) /\ job.step = "open"
        /\ jobs' = SetJob(id, "running", "dumped", job.data)
        /\ fs' = IF isfile(yml_file) /\ fs[yml_file].writer = id
                 THEN WriteFile(fs, yml_file, JobFile(id, TRUE, job.data))
                 ELSE fs
        /\ UNCHANGED <<dirs, next_id, ctlVars, histVars, callVars>>

\* lines 101-108: write the best solution if asked to, and exit
WorkerFinish(id) ==
    LET job == jobs[id]
        print_sol_path == ArgPath(job.args[8])
    IN  /\ job.state = "running" /\ IsWorker(job) /\ job.step = "dumped"
        /\ jobs' = EndJob(id)
        /\ fs' = IF print_sol_path # PyNone
                 THEN WriteFile(fs, print_sol_path, JobFile(id, TRUE, NoData))
                 ELSE fs
        /\ UNCHANGED <<dirs, next_id, ctlVars, histVars, callVars>>

\* Slurm/safety_check.py: write the marker file named by the only argument
SentinelRun(id) ==
    LET job == jobs[id]
    IN  /\ job.state = "running" /\ IsSentinel(job)
        /\ jobs' = EndJob(id)
        /\ fs' = WriteFile(fs, job.args[1], JobFile(id, TRUE, NoData))
        /\ UNCHANGED <<dirs, next_id, ctlVars, histVars, callVars>>

(***************************************************************************)
(* Phase Controller (Slurm/generate_instance_subset.py)                    *)
(***************************************************************************)
\* __main__ lines 137-142: the three calls of filter_instances
LoadSolutions(ph) == ph = 3
\* faulty variant: no call is a solution-generating one
PrintSolutions_Never(ph) == FALSE
PrintSolutions(ph) == ph = 2
NumPhases == 3

ScipTimeLimit(load_solutions) ==
    IF load_solutions THEN TRAINING_SET_TIME_LIMIT_WITH_SOLUTION
    ELSE TRAINING_SET_TIME_LIMIT_WITHOUT_SOLUTION

Instance(instance_path) == InstanceName(InstanceFile(instance_path))

\* lines 51-53
WorkerJobName(instance_path) == Instance(instance_path) \o <<"--", "0", "--", "0">>

\* faulty variant: the instance's name is passed where its path belongs
WorkerArgs_NameForPath(instance_path, ph) ==
    LET solution_path == SolutionPath(SOLUTION_DIR, Instance(instance_path))
    IN  << RESULTS_DIR, Instance(instance_path), instance_path, 0, 0,
           ScipTimeLimit(LoadSolutions(ph)), "True",
           FormatArg(IF PrintSolutions(ph) THEN solution_path ELSE PyNone),
           FormatArg(IF LoadSolutions(ph) THEN solution_path ELSE PyNone) >>

\* lines 55-58: the worker's arguments (the tuning parameters after the
\* ninth argument do not reach anything modelled)
WorkerArgs(instance_path, ph) ==
    LET solution_path == SolutionPath(SOLUTION_DIR, Instance(instance_path))
    IN  << RESULTS_DIR, instance_path, Instance(instance_path), 0, 0,
           ScipTimeLimit(LoadSolutions(ph)), "True",
           FormatArg(IF PrintSolutions(ph) THEN solution_path ELSE PyNone),
           FormatArg(IF LoadSolutions(ph) THEN solution_path ELSE PyNone) >>

\* faulty variant: the exception is swallowed and the phase goes on to wait
Abort_Swallow ==
    /\ pc' = "wait"
    /\ UNCHANGED <<phase, i, slurm_job_ids, instance_paths, good_instance_ids>>

\* the controller stops with an uncaught exception
Abort ==
    /\ pc' = "aborted"
    /\ UNCHANGED <<phase, i, slurm_job_ids, instance_paths, good_instance_ids>>

\* faulty variant: the list the call returns is not passed on, the next
\* call gets the list this call got
Return_DropResult(survivors) ==
    /\ instance_paths' = instance_paths
    /\ i' = 1
    /\ slurm_job_ids' = <<>>
    /\ good_instance_ids' = <<>>
    /\ IF phase < 3
       THEN phase' = phase + 1 /\ pc' = "hygiene_results"
       ELSE phase' = phase /\ pc' = "done"

\* faulty variant: the next call starts at its submission loop, the
\* directories being cleared only once
Return_SkipHygiene(survivors) ==
    /\ instance_paths' = survivors
    /\ i' = 1
    /\ slurm_job_ids' = <<>>
    /\ good_instance_ids' = <<>>
    /\ IF phase < 3
       THEN phase' = phase + 1 /\ pc' = IF Len(survivors) = 0 THEN "wait" ELSE "submit"
       ELSE phase' = phase /\ pc' = "done"

\* a call of filter_instances returns the given CandidateSet
Return(survivors) ==
    /\ instance_paths' = survivors
    /\ i' = 1
    /\ slurm_job_ids' = <<>>
    /\ good_instance_ids' = <<>>
    /\ IF phase < NumPhases
       THEN phase' = phase + 1 /\ pc' = "hygiene_results"
       ELSE phase' = phase /\ pc' = "done"

\* __main__ lines 131-135: list the instances, clear the solution directory
MainStart ==
    /\ pc = "main"
    /\ IF isdir(INSTANCE_DIR) /\ isdir(SOLUTION_DIR)
       THEN /\ instance_paths' =
                 [k \in 1..Len(SortedListing(fs, INSTANCE_DIR)) |->
                     join(INSTANCE_DIR, SortedListing(fs, INSTANCE_DIR)[k])]
            /\ fs' = remove_temp_files(fs, SOLUTION_DIR)
            /\ pc' = "hygiene_results"
            /\ phase' = 1
            /\ UNCHANGED <<i, slurm_job_ids, good_instance_ids>>
       ELSE Abort /\ fs' = fs
    /\ UNCHANGED <<dirs, schedVars, histVars, callVars>>

\* filter_instances line 31
HygieneResults ==
    /\ pc = "hygiene_results"
    /\ IF isdir(RESULTS_DIR)
       THEN /\ fs' = remove_temp_files(fs, RESULTS_DIR)
            /\ pc' = "hygiene_outfiles"
            /\ UNCHANGED <<phase, i, slurm_job_ids, instance_paths, good_instance_ids>>
       ELSE Abort /\ fs' = fs
    /\ UNCHANGED <<dirs, schedVars, histVars, callVars>>

\* line 32, and lines 35-41 up to the first submission
HygieneOutfiles ==
    /\ pc = "hygiene_outfiles"
    /\ IF isdir(OUTFILES_DIR)
       THEN /\ fs' = remove_temp_files(fs, OUTFILES_DIR)
            /\ pc' = IF Len(instance_paths) = 0 THEN "wait" ELSE "submit"
            /\ i' = 1
            /\ slurm_job_ids' = <<>>
            /\ UNCHANGED <<phase, instance_paths, good_instance_ids>>
       ELSE Abort /\ fs' = fs
    /\ UNCHANGED <<dirs, schedVars, histVars, callVars>>

\* lines 41-60: one iteration of the submission loop
SubmitWorker ==
    /\ pc = "submit"
    /\ \E resp \in SbatchResponses(next_id) :
          LET res == run_python_slurm_job(
                         SOLVE_INSTANCE_PY,
                         WorkerJobName(instance_paths[i]),
                         WorkerOutfile(OUTFILES_DIR, Instance(instance_paths[i]), 0, 0),
                         PyInt(2 * ScipTimeLimit(LoadSolutions(phase))),
                         WorkerArgs(instance_paths[i], phase),
                         NoDependencies,
                         resp)
          IN  /\ jobs' = Sbatch(jobs, next_id, res, resp, THIS_RUN, phase)
              /\ next_id' = NextId(next_id, res, resp)
              /\ IF res.raised
                 THEN Abort
                 ELSE /\ slurm_job_ids' = Append(slurm_job_ids, res.job_id)
                      /\ i' = i + 1
                      /\ pc' = IF i = Len(instance_paths) THEN "wait" ELSE "submit"
                      /\ UNCHANGED <<phase, instance_paths, good_instance_ids>>
              /\ result' = Outcome(res)
    /\ UNCHANGED <<fsVars, histVars, request>>

\* faulty variant: with no handle to wait for, no sentinel is submitted
SubmitSentinel_SkipEmpty ==
    /\ pc = "wait"
    /\ IF Len(slurm_job_ids) = 0
       THEN /\ pc' = "poll"
            /\ UNCHANGED <<jobs, next_id, sentinel_id, result, phase, i, slurm_job_ids,
                           instance_paths, good_instance_ids>>
       ELSE \E resp \in SbatchResponses(next_id) :
               LET res == run_python_slurm_job(
                              SAFETY_CHECK_PY,
                              <<"cleaner">>,
                              SafetyOut(OUTFILES_DIR),
                              PyInt(SENTINEL_TIME_LIMIT),
                              <<SafetyTxt(OUTFILES_DIR)>>,
                              PyList(slurm_job_ids),
                              resp)
               IN  /\ jobs' = Sbatch(jobs, next_id, res, resp, THIS_RUN, phase)
                   /\ next_id' = NextId(next_id, res, resp)
                   /\ IF res.raised
                      THEN Abort /\ sentinel_id' = sentinel_id
                      ELSE /\ pc' = "poll"
                           /\ sentinel_id' = res.job_id
                           /\ UNCHANGED <<phase, i, slurm_job_ids, instance_paths,
                                          good_instance_ids>>
                   /\ result' = Outcome(res)
    /\ UNCHANGED <<fsVars, readLog, request>>

\* wait_for_jobs_to_finish lines 106-113: submit the sentinel
SubmitSentinel ==
    /\ pc = "wait"
    /\ \E resp \in SbatchResponses(next_id) :
          LET res == run_python_slurm_job(
                         SAFETY_CHECK_PY,
                         <<"cleaner">>,
                         SafetyOut(OUTFILES_DIR),
                         PyInt(SENTINEL_TIME_LIMIT),
                         <<SafetyTxt(OUTFILES_DIR)>>,
                         PyList(slurm_job_ids),
                         resp)
          IN  /\ jobs' = Sbatch(jobs, next_id, res, resp, THIS_RUN, phase)
              /\ next_id' = NextId(next_id, res, resp)
              /\ IF res.raised
                 THEN Abort /\ sentinel_id' = sentinel_id
                 ELSE /\ pc' = "poll"
                      /\ sentinel_id' = res.job_id
                      /\ UNCHANGED <<phase, i, slurm_job_ids, instance_paths,
                                     good_instance_ids>>
              /\ result' = Outcome(res)
    /\ UNCHANGED <<fsVars, readLog, request>>

\* faulty variant: the loop does not look at the marker
MarkerSeen_Always == TRUE

\* line 116: the loop condition, looked at every five seconds
MarkerSeen == isfile(SafetyTxt(OUTFILES_DIR))

\* lines 115-119 and 65-71: sleep while the marker is missing; once it is
\* seen, a solution-generating phase returns its input and a filter phase
\* goes on to read the records
Poll ==
    /\ pc = "poll"
    /\ IF ~MarkerSeen
       THEN UNCHANGED <<ctlVars, histVars>>
       ELSE IF PrintSolutions(phase)
       THEN Return(instance_paths) /\ sentinel_id' = 0 /\ readLog' = {}
       ELSE /\ pc' = IF Len(instance_paths) = 0 THEN "emit" ELSE "collect"
            /\ i' = 1
            /\ good_instance_ids' = <<>>
            /\ UNCHANGED <<phase, slurm_job_ids, instance_paths, histVars>>
    /\ UNCHANGED <<fsVars, schedVars, callVars>>

\* faulty variant: the largest number of nodes is not allowed itself
Suitable_NodesBelowMax(instance_data) ==
    /\ instance_data.status = "optimal"
    /\ TRAINING_SET_MIN_NODES <= instance_data.num_nodes
    /\ instance_data.num_nodes < TRAINING_SET_MAX_NODES
    /\ TRAINING_SET_MIN_TIME_LIMIT <= instance_data.solve_time
    /\ instance_data.presolve_time <= TRAINING_SET_PRESOLVE_TIME_LIMIT

\* faulty variant: the solve time has to exceed the minimum
Suitable_StrictTime(instance_data) ==
    /\ instance_data.status = "optimal"
    /\ TRAINING_SET_MIN_NODES <= instance_data.num_nodes
    /\ instance_data.num_nodes <= TRAINING_SET_MAX_NODES
    /\ TRAINING_SET_MIN_TIME_LIMIT < instance_data.solve_time
    /\ instance_data.presolve_time <= TRAINING_SET_PRESOLVE_TIME_LIMIT

\* lines 78-82: the filter predicate on a loaded record
Suitable(instance_data) ==
    /\ instance_data.status = "optimal"
    /\ TRAINING_SET_MIN_NODES <= instance_data.num_nodes
    /\ instance_data.num_nodes <= TRAINING_SET_MAX_NODES
    /\ TRAINING_SET_MIN_TIME_LIMIT <= instance_data.solve_time
    /\ instance_data.presolve_time <= TRAINING_SET_PRESOLVE_TIME_LIMIT

\* faulty variant: the record is looked for under random seed 1
CandidateYml_Seed1(k) == get_filename(RESULTS_DIR, Instance(instance_paths[k]), 1, 0, "yml")

\* line 72
CandidateYml(k) == get_filename(RESULTS_DIR, Instance(instance_paths[k]), 0, 0, "yml")

\* faulty variant: the record file is opened without the test of line 73
Verdict_NoIsfile(f, yml_file) ==
    IF yml_file \notin DOMAIN f THEN "raise"
    ELSE IF ~f[yml_file].complete THEN "raise"
    ELSE IF Suitable(f[yml_file].data) THEN "accept"
    ELSE "reject"

\* lines 73-82: what the collection loop does with a candidate's record
\* file.  Loading a file whose write was not finished yields no mapping, and
\* reading 'status' from it raises.
Verdict(f, yml_file) ==
    IF yml_file \notin DOMAIN f THEN "skip"
    ELSE IF ~f[yml_file].complete THEN "raise"
    ELSE IF Suitable(f[yml_file].data) THEN "accept"
    ELSE "reject"

\* lines 71-82: one iteration of the collection loop
Collect ==
    LET yml_file == CandidateYml(i)
        verdict == Verdict(fs, yml_file)
    IN  /\ pc = "collect"
        /\ readLog' = IF isfile(yml_file)
                       THEN readLog \cup
                            {[cand |-> i, writer |-> fs[yml_file].writer,
                              run |-> fs[yml_file].run, phase |-> fs[yml_file].phase,
                              complete |-> fs[yml_file].complete]}
                       ELSE readLog
        /\ IF verdict = "raise"
           THEN Abort
           ELSE /\ i' = i + 1
                /\ pc' = IF i = Len(instance_paths) THEN "emit" ELSE "collect"
                /\ good_instance_ids' = IF verdict = "accept"
                                         THEN Append(good_instance_ids, i)
                                         ELSE good_instance_ids
                /\ UNCHANGED <<phase, slurm_job_ids, instance_paths>>
        /\ UNCHANGED <<fsVars, schedVars, sentinel_id, callVars>>

\* faulty variant: only the first accepted candidate is copied
CopyInstances_First(f, paths, ids) ==
    IF Len(ids) = 0 THEN f
    ELSE WriteFile(f, join(INSTANCE_SUBSET_DIR, InstanceFile(paths[Head(ids)])),
                   f[paths[Head(ids)]])

\* shutil.copy of each accepted instance into the subset directory
RECURSIVE CopyInstances(_, _, _)
CopyInstances(f, paths, ids) ==
    IF Len(ids) = 0 THEN f
    ELSE CopyInstances(
             WriteFile(f, join(INSTANCE_SUBSET_DIR, InstanceFile(paths[Head(ids)])),
                       f[paths[Head(ids)]]),
             paths, Tail(ids))

\* faulty variant: the copies in the subset directory are returned
Survivors_Copies(paths, ids) ==
    [k \in 1..Len(ids) |-> join(INSTANCE_SUBSET_DIR, InstanceFile(paths[ids[k]]))]

\* faulty variant: the accepted candidates are returned last first
Survivors_Reversed(paths, ids) == [k \in 1..Len(ids) |-> paths[ids[Len(ids) + 1 - k]]]

\* line 92
Survivors(paths, ids) == [k \in 1..Len(ids) |-> paths[ids[k]]]

\* lines 84-92: replace the subset directory's content, return the survivors
Emit ==
    /\ pc = "emit"
    /\ IF isdir(INSTANCE_SUBSET_DIR)
       THEN /\ fs' = CopyInstances(remove_temp_files(fs, INSTANCE_SUBSET_DIR),
                                   instance_paths, good_instance_ids)
            /\ Return(Survivors(instance_paths, good_instance_ids))
            /\ sentinel_id' = 0
            /\ readLog' = {}
       ELSE Abort /\ fs' = fs /\ UNCHANGED histVars
    /\ UNCHANGED <<dirs, schedVars, callVars>>

(***************************************************************************)
(* The pipeline with its jobs                                              *)
(***************************************************************************)
AllDirs == {INSTANCE_DIR, SOLUTION_DIR, INSTANCE_SUBSET_DIR, OUTFILES_DIR, RESULTS_DIR, "Slurm"}

GoodData == [status |-> "optimal", num_nodes |-> 50, solve_time |-> 5, presolve_time |-> 10]

\* a file an ended job of an earlier run wrote
OldFile(data) == File(0, EARLIER_RUN, 1, TRUE, data)

\* the working directory holds the two programs, and instance_dir holds the
\* chosen instance files of the pool
ProgramFiles == {SOLVE_INSTANCE_PY, SAFETY_CHECK_PY}
InstanceFiles(chosen) == {join(INSTANCE_DIR, InstancePool[k]) : k \in chosen}

\* what an earlier run may have left: the marker and the sentinel's output,
\* a record and statistics for each instance, a solution for each instance
OldOutfiles == {SafetyTxt(OUTFILES_DIR), SafetyOut(OUTFILES_DIR)}
OldResults(chosen) ==
    UNION { {get_filename(RESULTS_DIR, InstanceName(InstancePool[k]), 0, 0, "yml"),
             get_filename(RESULTS_DIR, InstanceName(InstancePool[k]), 0, 0, "stats")}
            : k \in chosen }
OldSolutions(chosen) ==
    {SolutionPath(SOLUTION_DIR, InstanceName(InstancePool[k])) : k \in chosen}

InitialFiles(chosen, old) ==
    [q \in ProgramFiles \cup InstanceFiles(chosen) \cup old |->
        IF q \in ProgramFiles \cup InstanceFiles(chosen) THEN PlainFile
        ELSE OldFile(IF Last(q) = "yml" THEN GoodData ELSE NoData)]

\* a worker job that phase ph of an earlier run submitted for the instance
LingeringJob(instance_path, ph) ==
    NewJob(Cmd(SOLVE_INSTANCE_PY,
               WorkerJobName(instance_path),
               WorkerOutfile(OUTFILES_DIR, Instance(instance_path), 0, 0),
               PyInt(2 * ScipTimeLimit(LoadSolutions(ph))),
               WorkerArgs(instance_path, ph),
               <<>>),
           EARLIER_RUN, ph)

NoRequest == [python_file |-> <<>>, outfile |-> <<>>, time_limit |-> PyInt(0),
              dependencies |-> NoDependencies, answer |-> "none"]

\* The pipeline is started on an instance directory of up to max_candidates
\* files and on directories that may hold what an earlier run
\* left (leftovers: which of the marker and sentinel output, the records and
\* the solutions), while the scheduler may still hold up to max_lingering
\* worker jobs of an earlier run that stopped during its submission loop
\* (no job is ever cancelled).
Start(max_candidates, max_lingering, leftovers) ==
    /\ \E chosen \in SUBSET (1..Len(InstancePool)) :
       \E left \in leftovers :
       \E oldOut \in {left[1]}, oldRes \in {left[2]}, oldSol \in {left[3]} :
       \E lingering \in SUBSET chosen :
       \E ph \in 1..NumPhases :
          /\ Cardinality(chosen) <= max_candidates
          /\ Cardinality(lingering) <= max_lingering
          /\ lingering = {} => ph = 1
          /\ fs = InitialFiles(chosen,
                      (IF oldOut THEN OldOutfiles ELSE {})
                      \cup (IF oldRes THEN OldResults(chosen) ELSE {})
                      \cup (IF oldSol THEN OldSolutions(chosen) ELSE {}))
          /\ LET order == SelectSeq([k \in 1..Len(InstancePool) |-> k],
                                    LAMBDA k : k \in lingering)
             IN  jobs = [id \in 1..Len(order) |->
                            LingeringJob(join(INSTANCE_DIR, InstancePool[order[id]]), ph)]
          /\ next_id = Cardinality(lingering) + 1
    /\ dirs = AllDirs
    /\ pc = "main"
    /\ phase = 1
    /\ i = 1
    /\ slurm_job_ids = <<>>
    /\ instance_paths = <<>>
    /\ good_instance_ids = <<>>
    /\ sentinel_id = 0
    /\ readLog = {}
    /\ request = NoRequest
    /\ result = NoResult

\* every job of earlier runs has ended; files of each kind may be left
Init == Start(MaxCandidates, 0, BOOLEAN \X BOOLEAN \X BOOLEAN)

\* jobs of an earlier run may still be on the scheduler; the directories
\* are as it found them or hold files of every kind
InitRerun ==
    Start(MaxRerunCandidates, MaxLingering, {<<FALSE, FALSE, FALSE>>, <<TRUE, TRUE, TRUE>>})

Controller ==
    \/ MainStart
    \/ HygieneResults
    \/ HygieneOutfiles
    \/ SubmitWorker
    \/ SubmitSentinel
    \/ Poll
    \/ Collect
    \/ Emit

Cluster ==
    \/ \E id \in JobIds : StartJob(id)
    \/ \E id \in JobIds : KillJob(id)
    \/ \E id \in JobIds : WorkerSolve(id)
    \/ \E id \in JobIds : WorkerWriteStats(id)
    \/ \E id \in JobIds : WorkerOpenYml(id)
    \/ \E id \in JobIds : WorkerDumpYml(id)
    \/ \E id \in JobIds : WorkerFinish(id)
    \/ \E id \in JobIds : SentinelRun(id)

Next == Controller \/ Cluster

Spec == Init /\ [][Next]_vars

SpecRerun == InitRerun /\ [][Next]_vars

\* The controller runs on, the scheduler starts every job that may start,
\* and every running job goes on until it ends.
FairSpec == Spec /\ WF_vars(Controller) /\ WF_vars(Cluster)

(***************************************************************************)
(* run_python_slurm_job called on its own, with arguments of every kind    *)
(***************************************************************************)
\* at most this many calls are made with the same arguments
MaxCalls == 2

\* jobs of the user that the scheduler already holds when the calls start
HeldJobs == {10, 11}

MISSING_PY == <<"Slurm", "missing", ".py">>
RUN_SH == <<"Slurm", "run", ".sh">>
JOB_OUT == <<OUTFILES_DIR, "job", ".out">>
TAKEN_OUT == <<OUTFILES_DIR, "taken", ".out">>
PATTERN_OUT == <<OUTFILES_DIR, "%j", ".out">>
JOB_TXT == <<OUTFILES_DIR, "job", ".txt">>
NO_DIR_OUT == <<"no_dir", "job", ".out">>

PythonFiles == {SOLVE_INSTANCE_PY, MISSING_PY, RUN_SH}
Outfiles == {JOB_OUT, TAKEN_OUT, PATTERN_OUT, JOB_TXT, NO_DIR_OUT}
TimeLimits ==
    {PyInt(0), PyInt(10), PyInt(MAX_TIME_LIMIT), PyInt(0 - 1), PyInt(MAX_TIME_LIMIT + 1),
     [type |-> "float", val |-> 10]}
DependencyLists ==
    {NoDependencies, PyList(<<>>), PyList(<<10>>), PyList(<<10, 11>>), PyList(<<11, 10>>),
     PyList(<<10, 11, 10>>)}

\* what sbatch may print on its standard output for a request that would
\* become job id
AnswerKinds == {"ack", "ack_padded", "ack_then_more", "ack_on_cluster", "blank_then_ack",
                "id_only", "none"}

SbatchAnswer(kind, id) ==
    LET ack == SUBMITTED_BATCH_JOB \o <<" ">> \o str_int(id) IN
    CASE kind = "ack" -> Accept(id)
      [] kind = "ack_padded" ->
            [accepted |-> TRUE, stdout |-> <<ack \o <<" ", " ", "\n">>>>]
      [] kind = "ack_then_more" ->
            [accepted |-> TRUE, stdout |-> <<AckLine(id), <<"o", "k", "\n">>>>]
      [] kind = "ack_on_cluster" ->
            [accepted |-> TRUE,
             stdout |-> <<ack \o <<" ", "o", "n", " ", "c", "l", "u", "s", "t", "e", "r",
                                   " ", "c", "\n">>>>]
      [] kind = "blank_then_ack" ->
            [accepted |-> TRUE, stdout |-> <<<<"\n">>, AckLine(id)>>]
      [] kind = "id_only" ->
            [accepted |-> TRUE, stdout |-> <<str_int(id) \o <<"\n">>>>]
      [] OTHER -> Reject

HeldJob == [NewJob(NoCmd, EARLIER_RUN, 0) EXCEPT !.state = "running"]

InitSubmit ==
    /\ fs = [q \in {SOLVE_INSTANCE_PY, SAFETY_CHECK_PY, RUN_SH, TAKEN_OUT} |-> PlainFile]
    /\ dirs = AllDirs
    /\ jobs = [id \in HeldJobs |-> HeldJob]
    /\ next_id = 12
    /\ pc = "call"
    /\ phase = 0
    /\ i = 1
    /\ slurm_job_ids = <<>>
    /\ instance_paths = <<>>
    /\ good_instance_ids = <<>>
    /\ sentinel_id = 0
    /\ readLog = {}
    /\ request \in [python_file : PythonFiles, outfile : Outfiles, time_limit : TimeLimits,
                     dependencies : DependencyLists, answer : AnswerKinds]
    /\ result = NoResult

\* one call of run_python_slurm_job with the arguments of request
CallSubmit ==
    /\ pc = "call"
    /\ i <= MaxCalls
    /\ LET resp == SbatchAnswer(request.answer, next_id)
           res == run_python_slurm_job(request.python_file, <<"job">>, request.outfile,
                                       request.time_limit, <<>>, request.dependencies, resp)
       IN  /\ jobs' = Sbatch(jobs, next_id, res, resp, THIS_RUN, phase)
           /\ next_id' = NextId(next_id, res, resp)
           /\ result' = Outcome(res)
    /\ i' = i + 1
    /\ UNCHANGED <<fsVars, pc, phase, slurm_job_ids, instance_paths, good_instance_ids,
                   histVars, request>>

NextSubmit ==
    \/ CallSubmit
    \/ \E id \in JobIds : StartJob(id)
    \/ \E id \in JobIds : KillJob(id)

SpecSubmit == InitSubmit /\ [][NextSubmit]_vars

(***************************************************************************)
(* The collection and emission of filter_instances on its own, for every   *)
(* combination of records the workers of a phase may have left             *)
(***************************************************************************)
\* at most this many candidates are given to the phase
MaxFilterCandidates == 5

\* the candidates: instance_dir/c1.mps, instance_dir/c2.mps, ...
FilterCandidate(k) == <<INSTANCE_DIR, "c">> \o str_int(k) \o <<".mps">>

\* what the record of a candidate may hold
RecordData ==
    { [status |-> "optimal", num_nodes |-> 50, solve_time |-> 5, presolve_time |-> 10],
      [status |-> "optimal", num_nodes |-> 20000, solve_time |-> 6, presolve_time |-> 11],
      [status |-> "timelimit", num_nodes |-> 20001, solve_time |-> 120, presolve_time |-> 11] }

\* a candidate's worker left no record, or a record with one of the data
RecordChoices == {NoData} \cup RecordData

FilterFiles(n, ph, choice) ==
    LET paths == {FilterCandidate(k) : k \in 1..n}
        ymls == {get_filename(RESULTS_DIR, Instance(FilterCandidate(k)), 0, 0, "yml") :
                    k \in {j \in 1..n : choice[j] # NoData}}
        owner(q) == CHOOSE k \in 1..n :
                       q = get_filename(RESULTS_DIR, Instance(FilterCandidate(k)), 0, 0, "yml")
    IN  [q \in ProgramFiles \cup paths \cup ymls \cup {SafetyTxt(OUTFILES_DIR)} |->
            IF q \in ymls THEN File(owner(q), THIS_RUN, ph, TRUE, choice[owner(q)])
            ELSE IF q = SafetyTxt(OUTFILES_DIR) THEN File(n + 1, THIS_RUN, ph, TRUE, NoData)
            ELSE PlainFile]

\* the barrier of a filter-only phase over n candidates has returned: the n
\* workers and the sentinel have ended
FilterStart(max_candidates, choices) ==
    \E n \in 0..max_candidates :
    \E ph \in {ph \in 1..NumPhases : ~PrintSolutions(ph)} :
    \E choice \in [1..n -> choices] :
        /\ fs = FilterFiles(n, ph, choice)
        /\ dirs = AllDirs
        /\ jobs = <<>>
        /\ next_id = n + 2
        /\ pc = IF n = 0 THEN "emit" ELSE "collect"
        /\ phase = ph
        /\ i = 1
        /\ slurm_job_ids = [k \in 1..n |-> k]
        /\ instance_paths = [k \in 1..n |-> FilterCandidate(k)]
        /\ good_instance_ids = <<>>
        /\ sentinel_id = n + 1
        /\ readLog = {}
        /\ request = NoRequest
        /\ result = NoResult

InitFilter == FilterStart(MaxFilterCandidates, RecordChoices)

NextFilter ==
    \/ Collect
    \/ Emit

SpecFilter == InitFilter /\ [][NextFilter]_vars

\* The same for fewer candidates, with records whose fields take the values
\* at and next to each threshold of parameters.py
MaxPredicateCandidates == 2

FieldChoices ==
    [status : {"optimal", "timelimit"},
     num_nodes : {TRAINING_SET_MIN_NODES - 1, TRAINING_SET_MIN_NODES,
                  TRAINING_SET_MAX_NODES, TRAINING_SET_MAX_NODES + 1},
     solve_time : {TRAINING_SET_MIN_TIME_LIMIT - 1, TRAINING_SET_MIN_TIME_LIMIT},
     presolve_time : {TRAINING_SET_PRESOLVE_TIME_LIMIT,
                      TRAINING_SET_PRESOLVE_TIME_LIMIT + 1}]

InitPredicate == FilterStart(MaxPredicateCandidates, {NoData} \cup FieldChoices)

SpecPredicate == InitPredicate /\ [][NextFilter]_vars

(***************************************************************************)
(* Worker jobs on their own: invocations of solve_instance.py for one      *)
(* instance, with either value of print_stats, with equal or different     *)
(* seeds, in a results directory that may hold files already               *)
(***************************************************************************)
\* at most this many worker jobs are on the scheduler
MaxWorkers == 2

WorkerInstance == <<INSTANCE_DIR, "a", ".mps">>
WorkerSeeds == {0, 1}
PrintStatsWords == {"True", "False"}

\* the job of one invocation with random seed r and the given print_stats
WorkerJob(r, print_stats) ==
    NewJob(Cmd(SOLVE_INSTANCE_PY,
               Instance(WorkerInstance) \o <<"--">> \o str_int(r) \o <<"--", "0">>,
               WorkerOutfile(OUTFILES_DIR, Instance(WorkerInstance), r, 0),
               PyInt(2 * TRAINING_SET_TIME_LIMIT_WITHOUT_SOLUTION),
               << RESULTS_DIR, WorkerInstance, Instance(WorkerInstance), r, 0,
                  TRAINING_SET_TIME_LIMIT_WITHOUT_SOLUTION, print_stats,
                  FormatArg(PyNone), FormatArg(PyNone) >>,
               <<>>),
           THIS_RUN, 1)

\* what the results directory may hold for seed 0 before the jobs run
EarlierResults ==
    {get_filename(RESULTS_DIR, Instance(WorkerInstance), 0, 0, "yml"),
     get_filename(RESULTS_DIR, Instance(WorkerInstance), 0, 0, "stats")}

InitWorker ==
    /\ \E n \in 1..MaxWorkers :
       \E r \in [1..n -> WorkerSeeds], print_stats \in [1..n -> PrintStatsWords] :
       \E old \in SUBSET EarlierResults :
          /\ jobs = [id \in 1..n |-> WorkerJob(r[id], print_stats[id])]
          /\ next_id = n + 1
          /\ fs = [q \in ProgramFiles \cup {WorkerInstance} \cup old |->
                      IF q \in old
                      THEN OldFile(IF Last(q) = "yml" THEN GoodData ELSE NoData)
                      ELSE PlainFile]
    /\ dirs = AllDirs
    /\ pc = "workers"
    /\ phase = 1
    /\ i = 1
    /\ slurm_job_ids = <<>>
    /\ instance_paths = <<>>
    /\ good_instance_ids = <<>>
    /\ sentinel_id = 0
    /\ readLog = {}
    /\ request = NoRequest
    /\ result = NoResult

NextWorker ==
    \/ \E id \in JobIds : StartJob(id)
    \/ \E id \in JobIds : KillJob(id)
    \/ \E id \in JobIds : WorkerSolve(id)
    \/ \E id \in JobIds : WorkerWriteStats(id)
    \/ \E id \in JobIds : WorkerOpenYml(id)
    \/ \E id \in JobIds : WorkerDumpYml(id)
    \/ \E id \in JobIds : WorkerFinish(id)

SpecWorker == InitWorker /\ [][NextWorker]_vars

(***************************************************************************)
(* The hygiene functions of utilities.py on their own, called twice on a   *)
(* directory: remove_temp_files, remove_slurm_files, and the directory     *)
(* preparation of test_configuration                                       *)
(***************************************************************************)
\* at most this many files lie in the directory, and this many calls are made
MaxHygieneFiles == 3
MaxHygieneCalls == 2

REMOVE_TEMP_FILES == "remove_temp_files"
REMOVE_SLURM_FILES == "remove_slurm_files"
TEST_CONFIGURATION == "test_configuration"

\* the functions called, and the directories they are called on ('' is the
\* empty path of the assertion of line 95)
HygieneFunctions == {REMOVE_TEMP_FILES, REMOVE_SLURM_FILES, TEST_CONFIGURATION}
HygieneDirs == {OUTFILES_DIR, RESULTS_DIR, ""}

\* the files that may lie in directory d
HygieneFilePool(d) == {<<d, "f">> \o str_int(k) \o <<".out">> : k \in 1..MaxHygieneFiles}

\* a file the hygiene has no business with
BYSTANDER == <<INSTANCE_DIR, "a", ".mps">>

\* os.listdir(d): the names in some order
Listings(f, d) ==
    LET names == FilesIn(f, d)
    IN  {order \in [1..Cardinality(names) -> names] :
            \A a, b \in 1..Cardinality(names) : a # b => order[a] # order[b]}

HygieneRequest(function, d, files) == [function |-> function, dir |-> d, files |-> files]

InitHygiene ==
    /\ \E function \in HygieneFunctions, d \in HygieneDirs, exists \in BOOLEAN :
       \E content \in SUBSET HygieneFilePool(d) :
          /\ d = "" => ~exists
          /\ ~exists => content = {}
          /\ dirs = IF exists THEN AllDirs ELSE AllDirs \ {d}
          /\ fs = [q \in content \cup {BYSTANDER} |-> PlainFile]
          /\ request = HygieneRequest(function, d, <<>>)
    /\ jobs = <<>>
    /\ next_id = 1
    /\ pc = "hygiene_call"
    /\ phase = 0
    /\ i = 1
    /\ slurm_job_ids = <<>>
    /\ instance_paths = <<>>
    /\ good_instance_ids = <<>>
    /\ sentinel_id = 0
    /\ readLog = {}
    /\ result = NoResult

\* an exception leaves the caller
HygieneRaise ==
    /\ pc' = "aborted"
    /\ result' = [NoResult EXCEPT !.raised = TRUE]
    /\ UNCHANGED <<fsVars, i, request>>

\* the function returns; the harness goes on to its next call
HygieneReturn ==
    /\ i' = i + 1
    /\ pc' = IF i = MaxHygieneCalls THEN "hygiene_done" ELSE "hygiene_call"
    /\ request' = [request EXCEPT !.files = <<>>]
    /\ result' = NoResult

\* utilities.py line 116: files = os.listdir(temp_dir)
ListDir ==
    /\ pc = "hygiene_call"
    /\ request.function = REMOVE_TEMP_FILES
    /\ IF ~isdir(request.dir)
       THEN HygieneRaise
       ELSE \E files \in Listings(fs, request.dir) :
               IF Len(files) = 0
               THEN HygieneReturn /\ UNCHANGED fsVars
               ELSE /\ request' = [request EXCEPT !.files = files]
                    /\ pc' = "remove"
                    /\ UNCHANGED <<fsVars, i, result>>
    /\ UNCHANGED <<schedVars, phase, slurm_job_ids, instance_paths, good_instance_ids,
                   histVars>>

\* faulty variant: the directory goes with its last file
RemoveFileStep_RemovesDir ==
    /\ pc = "remove"
    /\ fs' = RemoveFile(fs, Head(request.files))
    /\ IF Len(request.files) = 1
       THEN HygieneReturn /\ dirs' = dirs \ {request.dir}
       ELSE /\ request' = [request EXCEPT !.files = Tail(request.files)]
            /\ UNCHANGED <<dirs, pc, i, result>>
    /\ UNCHANGED <<schedVars, phase, slurm_job_ids, instance_paths, good_instance_ids,
                   histVars>>

\* lines 119-120: one iteration of the loop, os.remove of the next file
RemoveFileStep ==
    /\ pc = "remove"
    /\ IF ~isfile(Head(request.files))
       THEN HygieneRaise
       ELSE /\ fs' = RemoveFile(fs, Head(request.files))
            /\ dirs' = dirs
            /\ IF Len(request.files) = 1
               THEN HygieneReturn
               ELSE /\ request' = [request EXCEPT !.files = Tail(request.files)]
                    /\ UNCHANGED <<pc, i, result>>
    /\ UNCHANGED <<schedVars, phase, slurm_job_ids, instance_paths, good_instance_ids,
                   histVars>>

\* test_configuration.py lines 34-38 for one directory, and utilities.py
\* lines 95-98: the assertion, then shutil.rmtree of the directory
RmTree ==
    /\ pc = "hygiene_call"
    /\ request.function \in {REMOVE_SLURM_FILES, TEST_CONFIGURATION}
    /\ IF request.function = TEST_CONFIGURATION /\ ~isdir(request.dir)
       THEN IF request.dir = ""
            THEN HygieneRaise
            ELSE /\ dirs' = dirs \cup {request.dir}
                 /\ fs' = fs
                 /\ HygieneReturn
       ELSE IF request.dir = "/" \/ request.dir = "" \/ ~isdir(request.dir)
       THEN HygieneRaise
       ELSE /\ fs' = remove_temp_files(fs, request.dir)
            /\ dirs' = dirs \ {request.dir}
            /\ pc' = "mkdir"
            /\ UNCHANGED <<i, request, result>>
    /\ UNCHANGED <<schedVars, phase, slurm_job_ids, instance_paths, good_instance_ids,
                   histVars>>

\* faulty variant: the directory is not made again
MkDir_Skip ==
    /\ pc = "mkdir"
    /\ HygieneReturn
    /\ UNCHANGED <<fsVars, schedVars, phase, slurm_job_ids, instance_paths,
                   good_instance_ids, histVars>>

\* utilities.py line 101: os.mkdir(outfile_dir)
MkDir ==
    /\ pc = "mkdir"
    /\ IF isdir(request.dir)
       THEN HygieneRaise
       ELSE /\ dirs' = dirs \cup {request.dir}
            /\ fs' = fs
            /\ HygieneReturn
    /\ UNCHANGED <<schedVars, phase, slurm_job_ids, instance_paths, good_instance_ids,
                   histVars>>

NextHygiene ==
    \/ ListDir
    \/ RemoveFileStep
    \/ RmTree
    \/ MkDir

SpecHygiene == InitHygiene /\ [][NextHygiene]_vars

(***************************************************************************)
(* Slurm/test_configuration.py: one fan-out of worker jobs over the seeds  *)
(* and the instances, behind one barrier                                   *)
(***************************************************************************)
\* at most this many instance files lie in instance_dir, and the first this
\* many of the random seeds of parameters.py are used
MaxTestInstances == 1
MaxFanOutInstances == 2
MaxRandomSeeds == 2

\* parameters.py lines 14, 18 and 22
RANDOM_SEEDS == SubSeq(<<1, 2, 3, 4, 5>>, 1, MaxRandomSeeds)
PERMUTATION_SEEDS == <<0>>
SCIP_TEST_TIME_LIMIT == 7200

\* line 33: the directories cleared, in this order
TestDirs == <<OUTFILES_DIR, RESULTS_DIR>>

\* lines 50-52: the k-th iteration of the three nested loops over n instances
TestInstanceIndex(k, n) == ((k - 1) % n) + 1
\* faulty variant: every iteration takes the first random seed
TestRandomSeed_First(k, n) == RANDOM_SEEDS[1]
TestRandomSeed(k, n) == RANDOM_SEEDS[(((k - 1) \div n) % Len(RANDOM_SEEDS)) + 1]
TestPermutationSeed(k, n) == PERMUTATION_SEEDS[((k - 1) \div (n * Len(RANDOM_SEEDS))) + 1]
TestIterations(n) == Len(PERMUTATION_SEEDS) * Len(RANDOM_SEEDS) * n

\* lines 54, 58-60: the job's name and arguments (solution_dir None; the
\* arguments after the ninth do not reach anything modelled)
TestJobName(instance_path, r, p) ==
    Instance(instance_path) \o <<"--">> \o str_int(r) \o <<"--">> \o str_int(p)
TestWorkerArgs(instance_path, r, p) ==
    << RESULTS_DIR, instance_path, Instance(instance_path), r, p, SCIP_TEST_TIME_LIMIT,
       "True", FormatArg(PyNone), FormatArg(PyNone) >>

\* test_configuration is called with instance files in instance_dir; the
\* two directories it clears are missing, empty, or hold what an earlier
\* call left
TestStart(choices, leftovers) ==
    /\ \E chosen \in choices :
       \E left \in leftovers :
          /\ dirs = IF left = "missing" THEN AllDirs \ {OUTFILES_DIR, RESULTS_DIR}
                    ELSE AllDirs
          /\ fs = InitialFiles(chosen,
                                IF left = "old" THEN OldOutfiles \cup OldResults(chosen)
                                ELSE {})
    /\ jobs = <<>>
    /\ next_id = 1
    /\ pc = "test_prepare"
    /\ phase = 1
    /\ i = 1
    /\ slurm_job_ids = <<>>
    /\ instance_paths = <<>>
    /\ good_instance_ids = <<>>
    /\ sentinel_id = 0
    /\ readLog = {}
    /\ request = NoRequest
    /\ result = NoResult

InitTest ==
    TestStart({chosen \in SUBSET (1..Len(InstancePool)) : Cardinality(chosen) <= MaxTestInstances},
              {"missing", "empty", "old"})

\* lines 33-37 for the i-th directory: remove_slurm_files up to its rmtree
\* if the directory is there, os.mkdir otherwise
TestPrepare ==
    /\ pc = "test_prepare"
    /\ IF isdir(TestDirs[i])
       THEN /\ fs' = remove_temp_files(fs, TestDirs[i])
            /\ dirs' = dirs \ {TestDirs[i]}
            /\ pc' = "test_mkdir"
            /\ i' = i
       ELSE /\ fs' = fs
            /\ dirs' = dirs \cup {TestDirs[i]}
            /\ pc' = IF i = Len(TestDirs) THEN "test_list" ELSE "test_prepare"
            /\ i' = IF i = Len(TestDirs) THEN 1 ELSE i + 1
    /\ UNCHANGED <<phase, slurm_job_ids, instance_paths, good_instance_ids, schedVars,
                   histVars, callVars>>

\* utilities.py line 101, the os.mkdir of remove_slurm_files
TestMkDir ==
    /\ pc = "test_mkdir"
    /\ IF isdir(TestDirs[i])
       THEN Abort /\ dirs' = dirs
       ELSE /\ dirs' = dirs \cup {TestDirs[i]}
            /\ pc' = IF i = Len(TestDirs) THEN "test_list" ELSE "test_prepare"
            /\ i' = IF i = Len(TestDirs) THEN 1 ELSE i + 1
            /\ UNCHANGED <<phase, slurm_job_ids, instance_paths, good_instance_ids>>
    /\ UNCHANGED <<fs, schedVars, histVars, callVars>>

\* lines 40-41, 48: os.listdir(instance_dir) in whatever order it comes
TestList ==
    /\ pc = "test_list"
    /\ \E listing \in Listings(fs, INSTANCE_DIR) :
          /\ instance_paths' = listing
          /\ pc' = IF Len(listing) = 0 THEN "test_wait" ELSE "test_submit"
    /\ i' = 1
    /\ slurm_job_ids' = <<>>
    /\ UNCHANGED <<fsVars, phase, good_instance_ids, schedVars, histVars, callVars>>

\* lines 50-63: one iteration of the nested loops
TestSubmitWorker ==
    /\ pc = "test_submit"
    /\ \E resp \in SbatchResponses(next_id) :
          LET n == Len(instance_paths)
              instance_path == instance_paths[TestInstanceIndex(i, n)]
              r == TestRandomSeed(i, n)
              p == TestPermutationSeed(i, n)
              res == run_python_slurm_job(
                         SOLVE_INSTANCE_PY,
                         TestJobName(instance_path, r, p),
                         WorkerOutfile(OUTFILES_DIR, Instance(instance_path), r, p),
                         PyInt(2 * SCIP_TEST_TIME_LIMIT),
                         TestWorkerArgs(instance_path, r, p),
                         NoDependencies,
                         resp)
          IN  /\ jobs' = Sbatch(jobs, next_id, res, resp, THIS_RUN, phase)
              /\ next_id' = NextId(next_id, res, resp)
              /\ IF res.raised
                 THEN Abort
                 ELSE /\ slurm_job_ids' = Append(slurm_job_ids, res.job_id)
                      /\ i' = i + 1
                      /\ pc' = IF i = TestIterations(n) THEN "test_wait" ELSE "test_submit"
                      /\ UNCHANGED <<phase, instance_paths, good_instance_ids>>
              /\ result' = Outcome(res)
    /\ UNCHANGED <<fsVars, histVars, request>>

\* lines 65-72: submit the sentinel
TestSubmitSentinel ==
    /\ pc = "test_wait"
    /\ \E resp \in SbatchResponses(next_id) :
          LET res == run_python_slurm_job(
                         SAFETY_CHECK_PY,
                         <<"cleaner">>,
                         SafetyOut(OUTFILES_DIR),
                         PyInt(SENTINEL_TIME_LIMIT),
                         <<SafetyTxt(OUTFILES_DIR)>>,
                         PyList(slurm_job_ids),
                         resp)
          IN  /\ jobs' = Sbatch(jobs, next_id, res, resp, THIS_RUN, phase)
              /\ next_id' = NextId(next_id, res, resp)
              /\ IF res.raised
                 THEN Abort /\ sentinel_id' = sentinel_id
                 ELSE /\ pc' = "test_poll"
                      /\ sentinel_id' = res.job_id
                      /\ UNCHANGED <<phase, i, slurm_job_ids, instance_paths,
                                     good_instance_ids>>
              /\ result' = Outcome(res)
    /\ UNCHANGED <<fsVars, readLog, request>>

\* lines 74-76: sleep while the marker is missing, then return
TestPoll ==
    /\ pc = "test_poll"
    /\ IF MarkerSeen THEN pc' = "test_done" ELSE pc' = pc
    /\ UNCHANGED <<phase, i, slurm_job_ids, instance_paths, good_instance_ids, fsVars,
                   schedVars, histVars, callVars>>

TestController ==
    \/ TestPrepare
    \/ TestMkDir
    \/ TestList
    \/ TestSubmitWorker
    \/ TestSubmitSentinel
    \/ TestPoll

NextTest == TestController \/ Cluster

SpecTest == InitTest /\ [][NextTest]_vars

\* test_configuration on up to MaxFanOutInstances uncompressed instance
\* files, the two directories being there and empty
InitFanOut ==
    TestStart({chosen \in SUBSET (1..Len(InstancePool)) :
                  /\ Cardinality(chosen) <= MaxFanOutInstances
                  /\ \A a \in chosen : Last(InstancePool[a]) = ".mps"},
              {"empty"})

SpecFanOut == InitFanOut /\ [][NextTest]_vars

\* either program, the subset pipeline or test_configuration
InitPrograms == Init \/ InitTest

NextPrograms ==
    \/ Controller
    \/ TestController
    \/ Cluster

SpecPrograms == InitPrograms /\ [][NextPrograms]_vars

(***************************************************************************)
(* Properties                                                              *)
(***************************************************************************)
\* every handle collected in this phase names a job that has ended
AllUpstreamEnded == \A k \in 1..Len(slurm_job_ids) : Ended(slurm_job_ids[k])

\* this phase's sentinel has been submitted
SentinelSubmitted == sentinel_id # 0

\* outfiles_dir/safety_check.txt exists
MarkerExists == <<OUTFILES_DIR, "safety_check", ".txt">> \in DOMAIN fs

\* C1 (barrier ordering): once the sentinel of a phase has been submitted
\* with the phase's handles as its dependencies, the marker file exists only
\* if every one of those upstream jobs has reached a terminal state.
C1_BarrierOrdering == (SentinelSubmitted /\ MarkerExists) => AllUpstreamEnded

\* the marker is there for a phase that submitted two upstream jobs
C1_Witness ==
    /\ SentinelSubmitted /\ MarkerExists
    /\ Len(slurm_job_ids) = 2
    /\ pc = "poll"

\* C2: in a phase that collects, the controller is past the barrier only
\* when the marker exists and every worker of the phase has ended, and no
\* record is read before that.
C2_CollectAfterBarrier ==
    /\ pc \in {"collect", "emit"} => (MarkerExists /\ AllUpstreamEnded)
    /\ pc \in {"hygiene_results", "hygiene_outfiles", "submit", "wait", "poll"} =>
          readLog = {}

\* the collection loop has read a record of a phase with two workers
C2_Witness ==
    /\ pc = "collect"
    /\ Len(slurm_job_ids) = 2
    /\ readLog # {}

\* C3 (barrier liveness under partial failure): when every upstream job of
\* the phase has ended, however it ended, the sentinel is released and the
\* controller's wait returns.
C3_WaitReturnsAfterUpstreamEnded ==
    (pc = "poll" /\ AllUpstreamEnded) ~> (pc # "poll")

\* C4: once the sentinel has reached a terminal state, by writing the
\* marker, by its time limit or by failing, the poll loop terminates.
C4_WaitReturnsAfterSentinelEnded ==
    (pc = "poll" /\ SentinelSubmitted /\ Ended(sentinel_id)) ~> (pc # "poll")

\* C5 (stale-record exclusion): every record the collection of a phase
\* reads was written by a worker that this phase of this run submitted.
C5_NoStaleRecordRead ==
    \A e \in readLog : e.run = THIS_RUN /\ e.phase = phase

\* a step of the collection loop
CollectStep == pc = "collect" /\ (i' # i \/ pc' # pc)

\* a return of filter_instances from its last lines
EmitStep == pc = "emit" /\ pc' \in {"hygiene_results", "done"}

\* C6 (missing-record handling): a candidate whose record file is absent
\* at collection time raises nothing, is not accepted and is not among the
\* survivors, and the collection goes on with the next candidate.
C6_MissingRecordSkipped ==
    [][ /\ (CollectStep /\ ~isfile(CandidateYml(i))) =>
              /\ pc' = IF i = Len(instance_paths) THEN "emit" ELSE "collect"
              /\ i' = i + 1
              /\ good_instance_ids' = good_instance_ids
              /\ instance_paths' = instance_paths
        /\ EmitStep =>
              \A k \in 1..Len(instance_paths') :
                 \E j \in 1..Len(instance_paths) :
                    /\ instance_paths'[k] = instance_paths[j]
                    /\ isfile(CandidateYml(j))
      ]_vars

\* the first of two candidates has no record and the second was accepted
C6_Witness ==
    /\ pc = "emit"
    /\ Len(instance_paths) = 2
    /\ ~isfile(CandidateYml(1))
    /\ good_instance_ids = <<2>>

\* C7 (submission failure is fatal to the phase): a failed call of
\* run_python_slurm_job stops the controller; it is not retried, no further
\* worker and no sentinel is submitted, no record is read and no survivors
\* are emitted.
C7_SubmissionFailureIsFatal ==
    [][ /\ result'.raised => pc' = "aborted"
        /\ (pc = "submit" /\ result'.raised) =>
              /\ slurm_job_ids' = slurm_job_ids
              /\ sentinel_id' = 0
              /\ readLog' = {}
        /\ pc = "aborted" =>
              /\ UNCHANGED <<ctlVars, next_id, sentinel_id, readLog, result>>
              /\ DOMAIN jobs' \subseteq DOMAIN jobs
              /\ FilesIn(fs', INSTANCE_SUBSET_DIR) = FilesIn(fs, INSTANCE_SUBSET_DIR)
      ]_vars

\* the second of two submissions failed after the first was accepted
C7_Witness ==
    /\ pc = "aborted"
    /\ result.raised
    /\ Len(instance_paths) = 2
    /\ Len(slurm_job_ids) = 1
    /\ sentinel_id = 0

\* a call of run_python_slurm_job made on its own
CallStep == pc = "call" /\ i' = i + 1

\* C8 (duplicate-submission guard): a call whose output-capture path
\* already exists fails before the scheduler is invoked and changes neither
\* the filesystem nor the scheduler's jobs.
C8_DuplicateSubmissionGuard ==
    [][ (CallStep /\ request.outfile \in DOMAIN fs) =>
            /\ result'.raised
            /\ ~result'.invoked
            /\ UNCHANGED <<fs, dirs, jobs, next_id>>
      ]_vars

\* the call was repeated after the job of the first call had started and
\* opened its output-capture file
C8_Witness ==
    /\ i = 3
    /\ request.outfile = JOB_OUT
    /\ isfile(JOB_OUT)
    /\ next_id = 13
    /\ result.raised /\ ~result.invoked

\* C9 (submission preconditions): a call fails without invoking the
\* scheduler when the program file is not an existing .py file, the output
\* directory does not exist, or the time budget is not an integer in
\* [0, 10^8]; the scheduler is invoked only when all of these and the
\* duplicate-submission guard hold.
C9_SubmissionPreconditions ==
    [][ CallStep =>
            LET program_ok == /\ request.python_file \in DOMAIN fs
                              /\ Last(request.python_file) = ".py"
                dir_ok == Head(request.outfile) \in dirs
                time_ok == /\ request.time_limit.type = "int"
                           /\ request.time_limit.val >= 0
                           /\ request.time_limit.val <= 10 ^ 8
                guard_ok == request.outfile \notin DOMAIN fs
            IN  /\ ~(program_ok /\ dir_ok /\ time_ok) =>
                      /\ result'.raised
                      /\ ~result'.invoked
                      /\ UNCHANGED <<jobs, next_id>>
                /\ result'.invoked => (program_ok /\ dir_ok /\ time_ok /\ guard_ok)
      ]_vars

\* a call with a time budget just above the largest one failed, everything
\* else being in order
C9_Witness ==
    /\ i > 1
    /\ request.python_file = SOLVE_INSTANCE_PY
    /\ request.outfile = PATTERN_OUT
    /\ request.time_limit = PyInt(MAX_TIME_LIMIT + 1)
    /\ result.raised /\ ~result.invoked
    /\ next_id = 12

\* the line holds the acknowledgment token, a blank and the decimal digits
\* of n, and no further digit after them
CarriesAck(line, n) ==
    LET ack == SUBMITTED_BATCH_JOB \o <<" ">> \o str_int(n)
    IN  \E k \in 1..Len(line) :
           /\ k + Len(ack) - 1 <= Len(line)
           /\ SubSeq(line, k, k + Len(ack) - 1) = ack
           /\ (k + Len(ack) <= Len(line) => ~IsDigit(line[k + Len(ack)]))

\* C10 (acknowledgment parsing): the call returns a handle only if the
\* first line of the scheduler's output carries the acknowledgment token
\* followed by a decimal job identifier, and the handle is that identifier;
\* for any other first line, and for no output, the call fails.
C10_AcknowledgmentParsing ==
    [][ (CallStep /\ result'.invoked) =>
            LET stdout == SbatchAnswer(request.answer, next_id).stdout
            IN  /\ ~result'.raised =>
                      (Len(stdout) > 0 /\ CarriesAck(stdout[1], result'.job_id))
                /\ (Len(stdout) = 0 \/ ~\E n \in 0..next_id : CarriesAck(stdout[1], n)) =>
                      result'.raised
      ]_vars

\* a handle was returned for an acknowledgment followed by further output
C10_Witness ==
    /\ i > 1
    /\ request.answer = "ack_then_more"
    /\ result.invoked /\ ~result.raised
    /\ result.job_id = 12

\* the dependency clauses of a request
DependencyClauses(cmd) == SelectSeq(cmd.options, LAMBDA o : o.opt = "--dependency")

\* C11 (empty dependency set): a call with dependencies None or an empty
\* list sends a request without any dependency clause, and the job the
\* scheduler makes of it waits for no job.
C11_EmptyDependencySet ==
    [][ (/\ CallStep
         /\ result'.invoked
         /\ (request.dependencies.is_none \/ Len(request.dependencies.items) = 0)) =>
            /\ Len(DependencyClauses(result'.cmd)) = 0
            /\ next_id' # next_id =>
                  /\ jobs'[next_id].state = "pending"
                  /\ Len(jobs'[next_id].dependencies) = 0
      ]_vars

\* the job of a call with dependencies None runs while the jobs the
\* scheduler held before are still there
C11_Witness ==
    /\ i > 1
    /\ request.dependencies = NoDependencies
    /\ result.invoked /\ ~result.raised
    /\ HeldJobs \subseteq JobIds
    /\ result.job_id \in JobIds
    /\ jobs[result.job_id].state = "running"

\* text is the decimal handles in order, separated by single colons
RECURSIVE ListsHandles(_, _)
ListsHandles(text, handles) ==
    LET first == str_int(Head(handles)) IN
    IF Len(handles) = 1 THEN text = first
    ELSE /\ Len(text) > Len(first) + 1
         /\ SubSeq(text, 1, Len(first) + 1) = first \o <<":">>
         /\ ListsHandles(SubSeq(text, Len(first) + 2, Len(text)), Tail(handles))

\* C12 (non-empty dependency set): a call with k >= 1 handles sends a
\* request with exactly one dependency clause, of kind afterany, that lists
\* the k handles in input order, each as often as it occurs in the input.
C12_DependencyClause ==
    [][ (/\ CallStep
         /\ result'.invoked
         /\ ~request.dependencies.is_none
         /\ Len(request.dependencies.items) >= 1) =>
            LET clauses == DependencyClauses(result'.cmd)
                kind == <<"a", "f", "t", "e", "r", "a", "n", "y", ":">>
            IN  /\ Len(clauses) = 1
                /\ Len(clauses[1].val) > Len(kind)
                /\ SubSeq(clauses[1].val, 1, Len(kind)) = kind
                /\ ListsHandles(SubSeq(clauses[1].val, Len(kind) + 1, Len(clauses[1].val)),
                                request.dependencies.items)
      ]_vars

\* a request was sent for a list in which a handle occurs twice, and the
\* scheduler holds the job with that list
C12_Witness ==
    /\ i > 1
    /\ request.dependencies = PyList(<<10, 11, 10>>)
    /\ result.invoked /\ ~result.raised
    /\ result.job_id \in JobIds
    /\ jobs[result.job_id].dependencies = <<10, 11, 10>>

\* the order of the controller's positions in one call of filter_instances:
\* hygiene of the results directory, hygiene of the output directory, the
\* submission loop, the sentinel's submission, the barrier wait, the loop
\* that reads and filters the records, the emission of the survivors
PhaseOrder ==
    { <<"hygiene_results", "hygiene_outfiles">>,
      <<"hygiene_outfiles", "submit">>, <<"hygiene_outfiles", "wait">>,
      <<"submit", "submit">>, <<"submit", "wait">>,
      <<"wait", "poll">>,
      <<"poll", "collect">>, <<"poll", "emit">>,
      <<"collect", "collect">>, <<"collect", "emit">> }

\* the call returns: from the barrier in a solution-generating phase, from
\* the emission otherwise
ReturnStep ==
    /\ \/ pc = "poll" /\ phase = 2
       \/ pc = "emit"
    /\ \/ pc' = "hygiene_results" /\ phase' = phase + 1
       \/ pc' = "done" /\ phase' = phase

\* C13 (phase ordering): within a call of filter_instances the controller
\* moves only forward through hygiene, worker submissions, sentinel
\* submission, barrier wait, collection with filtering, and emission; a
\* worker is submitted only in the submission loop, after both directories
\* were cleared and before the sentinel is submitted, and the sentinel only
\* after the loop.
C13_PhaseOrdering ==
    [][ /\ (pc # pc' \/ i # i') =>
              \/ pc = "main" /\ pc' = "hygiene_results"
              \/ pc' = "aborted"
              \/ ReturnStep
              \/ phase' = phase /\ <<pc, pc'>> \in PhaseOrder
        /\ next_id' # next_id =>
              \/ /\ pc = "submit"
                 /\ IsWorker(jobs'[next_id])
                 /\ sentinel_id = 0
                 /\ \A q \in FilesIn(fs, RESULTS_DIR) \cup FilesIn(fs, OUTFILES_DIR) :
                       fs[q].writer # 0 /\ fs[q].run = THIS_RUN /\ fs[q].phase = phase
              \/ /\ pc = "wait"
                 /\ IsSentinel(jobs'[next_id])
                 /\ i = Len(instance_paths) + 1 \/ Len(instance_paths) = 0
      ]_vars

\* the third call has emitted a survivor: every step was gone through
C13_Witness ==
    /\ pc = "done"
    /\ phase = 3
    /\ Len(instance_paths) >= 1

\* a submission of the loop, or of the sentinel, that did not fail
WorkerSubmitted == pc = "submit" /\ pc' # "aborted" /\ (pc' # pc \/ i' # i)
SentinelSubmittedStep == pc = "wait" /\ pc' = "poll"

\* C14 (submission completeness): while no submission fails, the k-th
\* submission of a phase makes a worker job for the k-th candidate and its
\* handle becomes the k-th handle; the sentinel is submitted when there are
\* as many handles as candidates, and the jobs it waits for are exactly
\* those handles in that order.
C14_SubmissionCompleteness ==
    [][ /\ WorkerSubmitted =>
              /\ Len(slurm_job_ids) = i - 1
              /\ slurm_job_ids' = Append(slurm_job_ids, next_id)
              /\ next_id' = next_id + 1
              /\ IsWorker(jobs'[next_id])
              /\ jobs'[next_id].args[2] = instance_paths[i]
              /\ instance_paths' = instance_paths
        /\ SentinelSubmittedStep =>
              /\ Len(slurm_job_ids) = Len(instance_paths)
              /\ \A k \in 1..Len(slurm_job_ids) : slurm_job_ids[k] < next_id
              /\ IsSentinel(jobs'[next_id])
              /\ jobs'[next_id].dependencies = slurm_job_ids
              /\ Len(DependencyClauses(result'.cmd)) = (IF Len(slurm_job_ids) = 0 THEN 0 ELSE 1)
      ]_vars

\* the sentinel of a phase over two candidates waits for the two handles
C14_Witness ==
    /\ pc = "poll"
    /\ Len(instance_paths) = 2
    /\ Len(slurm_job_ids) = 2
    /\ sentinel_id \in JobIds
    /\ jobs[sentinel_id].dependencies = slurm_job_ids
    /\ jobs[sentinel_id].state = "pending"

\* C15 (monotonicity): the CandidateSet a filter-only phase returns has at
\* most as many elements as its input, and every survivor is an element of
\* the input.
C15_Monotonicity ==
    [][ EmitStep =>
            /\ Len(instance_paths') <= Len(instance_paths)
            /\ \A k \in 1..Len(instance_paths') :
                  \E j \in 1..Len(instance_paths) : instance_paths'[k] = instance_paths[j]
      ]_vars

\* the record of the k-th candidate file of the instance directory
FilterRecord(k) == get_filename(RESULTS_DIR, Instance(FilterCandidate(k)), 0, 0, "yml")

\* a phase over five candidates has returned three of them
C15_Witness ==
    /\ pc \in {"hygiene_results", "done"}
    /\ Cardinality(FilesIn(fs, INSTANCE_DIR)) = 5
    /\ Len(instance_paths) = 3

\* the candidates whose record is present and passes the predicate, in the
\* order of the input: a function of the input and of the records alone
ExpectedSurvivors(paths, f) ==
    LET yml(path) == get_filename(RESULTS_DIR, Instance(path), 0, 0, "yml")
    IN  SelectSeq(paths, LAMBDA path : yml(path) \in DOMAIN f /\ Suitable(f[yml(path)].data))

\* C16 (filter determinism and order): the survivors of a filter phase are
\* a function of the input sequence and of the records present at
\* collection alone, and they appear in the relative order of the input.
C16_FilterDeterminism ==
    [][ EmitStep =>
            /\ instance_paths' = ExpectedSurvivors(instance_paths, fs)
            /\ \A k, l \in 1..Len(instance_paths') :
                  k < l =>
                    \E a, b \in 1..Len(instance_paths) :
                       /\ a < b
                       /\ instance_paths[a] = instance_paths'[k]
                       /\ instance_paths[b] = instance_paths'[l]
      ]_vars

\* the second and the fourth of five candidates survived, in that order
C16_Witness ==
    /\ pc \in {"hygiene_results", "done"}
    /\ Cardinality(FilesIn(fs, INSTANCE_DIR)) = 5
    /\ instance_paths = <<FilterCandidate(2), FilterCandidate(4)>>

\* the record of the k-th candidate is as the scenario describes a good one
\* (status optimal, 50 <= num_nodes <= 20000, solve_time >= 5) ...
ScenarioOptimal(k) ==
    /\ isfile(CandidateYml(k))
    /\ fs[CandidateYml(k)].data.status = "optimal"
    /\ fs[CandidateYml(k)].data.num_nodes \in 50..20000
    /\ fs[CandidateYml(k)].data.solve_time >= 5

\* ... and its presolve time is at most 10
ScenarioFastPresolve(k) == fs[CandidateYml(k)].data.presolve_time <= 10

ScenarioTimelimit(k) ==
    /\ isfile(CandidateYml(k))
    /\ fs[CandidateYml(k)].data.status = "timelimit"

\* C17 as stated (filter scenario): of five candidates, three with records
\* of status optimal, num_nodes in [50, 20000] and solve_time >= 5 and two
\* with records of status timelimit, exactly the three survive, in order.
C17_ScenarioAsStated ==
    [][ (/\ EmitStep
         /\ Len(instance_paths) = 5
         /\ Cardinality({k \in 1..5 : ScenarioOptimal(k)}) = 3
         /\ Cardinality({k \in 1..5 : ScenarioTimelimit(k)}) = 2) =>
            instance_paths' =
               SelectSeq(instance_paths,
                         LAMBDA path : \E k \in 1..5 : path = instance_paths[k]
                                                       /\ ScenarioOptimal(k))
      ]_vars

\* C17 amended: the same when the three optimal records also have a
\* presolve_time of at most 10.
C17_FilterScenario ==
    [][ (/\ EmitStep
         /\ Len(instance_paths) = 5
         /\ Cardinality({k \in 1..5 : ScenarioOptimal(k) /\ ScenarioFastPresolve(k)}) = 3
         /\ Cardinality({k \in 1..5 : ScenarioTimelimit(k)}) = 2) =>
            instance_paths' =
               SelectSeq(instance_paths,
                         LAMBDA path : \E k \in 1..5 : path = instance_paths[k]
                                                       /\ ScenarioOptimal(k))
      ]_vars

\* the first, third and fifth of five candidates had good records, the
\* other two records of status timelimit, and those three were returned
C17_Witness ==
    /\ pc \in {"hygiene_results", "done"}
    /\ Cardinality(FilesIn(fs, INSTANCE_DIR)) = 5
    /\ \A k \in 1..5 : FilterRecord(k) \in DOMAIN fs
    /\ \A k \in {1, 3, 5} :
          /\ fs[FilterRecord(k)].data.status = "optimal"
          /\ fs[FilterRecord(k)].data.presolve_time <= 10
    /\ \A k \in {2, 4} : fs[FilterRecord(k)].data.status = "timelimit"
    /\ instance_paths = <<FilterCandidate(1), FilterCandidate(3), FilterCandidate(5)>>

\* the k-th worker job of the phase wrote a record file that is there
ProducedRecord(k) ==
    \E q \in FilesIn(fs, RESULTS_DIR) :
       Last(q) = "yml" /\ fs[q].writer = slurm_job_ids[k] /\ fs[q].run = THIS_RUN

\* the record file the k-th candidate is looked up under
RecordPath(k) ==
    join(RESULTS_DIR,
         InstanceName(Tail(instance_paths[k]))
            \o <<"__seed__", "0", "__permute__", "0", ".", "yml">>)

\* C18 as stated (read-back count): when a call of any phase returns, the
\* number of records the controller has read back is the number of worker
\* jobs submitted in the phase minus the number of those that produced no
\* record file.
C18_ReadBackCountAnyPhase ==
    [][ ReturnStep =>
           Cardinality(readLog) =
              Len(slurm_job_ids)
                - Cardinality({k \in 1..Len(slurm_job_ids) : ~ProducedRecord(k)})
      ]_vars

\* C18 amended: the collection of a filtering phase looks at each worker
\* job's record path once, in order, and reads a record exactly when there
\* is a file; when it has gone through, the number of records read back is
\* the number of worker jobs submitted in the phase minus the number of
\* those at whose record path there was no file.
C18_ReadBackCount ==
    [][ /\ CollectStep =>
              /\ (\E e \in readLog' : e.cand = i) <=> RecordPath(i) \in DOMAIN fs
              /\ \A e \in readLog' \ readLog : e.cand = i
              /\ \A e \in readLog : e.cand < i
        /\ EmitStep =>
              /\ Len(slurm_job_ids) = Len(instance_paths)
              /\ \A e \in readLog : e.cand \in 1..Len(slurm_job_ids)
              /\ Cardinality(readLog) =
                    Len(slurm_job_ids)
                      - Cardinality({k \in 1..Len(slurm_job_ids) :
                                       \A e \in readLog : e.cand # k})
      ]_vars

\* the collection of two candidates is through, one record was read, and
\* the other worker left no record file
C18_Witness ==
    /\ pc = "emit"
    /\ Len(slurm_job_ids) = 2
    /\ Cardinality(readLog) = 1
    /\ Cardinality({k \in 1..2 : RecordPath(k) \notin DOMAIN fs}) = 1

\* the positions of a call of filter_instances
InPhase == pc \in {"hygiene_results", "hygiene_outfiles", "submit", "wait", "poll",
                   "collect", "emit"}

\* C19 as stated (empty candidate set): a phase started with an empty
\* CandidateSet submits no job to the scheduler, raises no error and returns
\* an empty CandidateSet.
C19_EmptyPhaseSubmitsNothing ==
    [][ (InPhase /\ Len(instance_paths) = 0) =>
            /\ next_id' = next_id
            /\ pc' # "aborted"
            /\ ReturnStep => instance_paths' = <<>>
      ]_vars

\* C19 amended: a phase started with an empty CandidateSet submits no worker
\* job and exactly one sentinel job, which has no dependency; it raises an
\* error only if that submission fails; it reads no record; and when it
\* returns, the sentinel was submitted and the returned CandidateSet is
\* empty, the next phase (if any) starting with it.
C19_EmptyCandidateSet ==
    [][ (InPhase /\ Len(instance_paths) = 0) =>
            /\ pc' \notin {"submit", "collect"}
            /\ next_id' # next_id =>
                  /\ pc = "wait"
                  /\ next_id' = next_id + 1
                  /\ jobs'[next_id].python_file = SAFETY_CHECK_PY
                  /\ Len(jobs'[next_id].dependencies) = 0
                  /\ \A k \in 1..Len(result'.cmd.options) :
                        result'.cmd.options[k].opt # "--dependency"
            /\ (pc = "wait" /\ pc' = "poll") => next_id' = next_id + 1
            /\ pc' = "aborted" => pc = "wait" /\ result'.raised
            /\ readLog' = {}
            /\ ReturnStep =>
                  /\ sentinel_id = next_id - 1
                  /\ instance_paths' = <<>>
                  /\ phase < NumPhases => pc' = "hygiene_results" /\ phase' = phase + 1
      ]_vars

\* the instance directory was empty, each of the three phases submitted its
\* sentinel and nothing else, and the pipeline is through
C19_Witness ==
    /\ pc = "done"
    /\ FilesIn(fs, INSTANCE_DIR) = {}
    /\ instance_paths = <<>>
    /\ next_id = NumPhases + 1

\* sub can be had from seq by leaving elements out
RECURSIVE IsSubsequence(_, _)
IsSubsequence(sub, seq) ==
    IF Len(sub) = 0 THEN TRUE
    ELSE IF Len(seq) = 0 THEN FALSE
    ELSE IF Head(sub) = Head(seq) THEN IsSubsequence(Tail(sub), Tail(seq))
    ELSE IsSubsequence(sub, Tail(seq))

\* the sorted listing of the instance directory, as paths
InitialCandidates ==
    [k \in 1..Len(SortedListing(fs, INSTANCE_DIR)) |->
        join(INSTANCE_DIR, SortedListing(fs, INSTANCE_DIR)[k])]

\* what the call that is returning returns: its input from the barrier of
\* the solution-generating phase, the accepted candidates otherwise
Returned ==
    IF pc = "emit"
    THEN [k \in 1..Len(good_instance_ids) |-> instance_paths[good_instance_ids[k]]]
    ELSE instance_paths

\* C20 (pipeline chaining): the phase number only goes up, by one, when a
\* call returns after its barrier; the next call's input is what the call
\* returned and stays the phase's input until it returns; every job
\* submitted is a job of the current phase and no job of another phase is
\* left when it is submitted; the candidates in hand, and so the final
\* ones, are always an order-preserving subsequence of the initial listing.
C20_PipelineChaining ==
    [][ /\ phase' \in {phase, phase + 1}
        /\ phase' \in 1..NumPhases
        /\ phase' # phase => ReturnStep
        /\ ReturnStep =>
              /\ MarkerExists /\ sentinel_id # 0 /\ jobs = <<>>
              /\ instance_paths' = Returned
              /\ pc' = IF phase < NumPhases THEN "hygiene_results" ELSE "done"
        /\ (InPhase /\ ~ReturnStep) => instance_paths' = instance_paths
        /\ pc = "done" => UNCHANGED <<phase, instance_paths, jobs, next_id>>
        /\ next_id' # next_id =>
              /\ InPhase
              /\ jobs'[next_id].phase = phase /\ jobs'[next_id].run = THIS_RUN
              /\ \A id \in JobIds : jobs[id].phase = phase
        /\ pc' # "main" => IsSubsequence(instance_paths', InitialCandidates)
      ]_vars

\* the pipeline is through the three phases with the second of two
\* candidates as the only survivor
C20_Witness ==
    /\ pc = "done" /\ phase = NumPhases
    /\ Len(InitialCandidates) = 2
    /\ instance_paths = <<InitialCandidates[2]>>

\* C21 (the solution-generation phase is not a filter): the second call of
\* filter_instances, the one with print_solutions true, returns from its
\* barrier with exactly the candidate sequence it was given, reads no record
\* and copies nothing, whatever its worker jobs did.
C21_SolutionPhaseReturnsInput ==
    [][ /\ (ReturnStep /\ phase = 2) =>
              /\ pc = "poll"
              /\ instance_paths' = instance_paths
              /\ readLog = {}
              /\ fs' = fs
        /\ phase' = 2 => pc' \notin {"collect", "emit"}
      ]_vars

\* the third call starts with both candidates although the workers of the
\* second call left neither a record nor a solution
C21_Witness ==
    /\ phase = 3 /\ pc = "hygiene_results"
    /\ Len(instance_paths) = 2
    /\ FilesIn(fs, SOLUTION_DIR) = {}
    /\ \A q \in FilesIn(fs, RESULTS_DIR) : Last(q) # "yml"

\* a call of a hygiene function returns
HygieneReturnStep == pc \in {"hygiene_call", "remove", "mkdir"} /\ i' = i + 1

\* a call of a hygiene function is under way or has returned
HygieneStarted ==
    \/ pc \in {"remove", "mkdir", "hygiene_done"}
    \/ pc = "hygiene_call" /\ i > 1

\* C22 (hygiene idempotence): remove_temp_files and remove_slurm_files,
\* called twice in a row on an existing directory that holds only files,
\* raise nothing either time, and after each call the directory exists and
\* is empty; files elsewhere are left alone.
C22_HygieneIdempotence ==
    [][ /\ HygieneReturnStep =>
              /\ request.dir \in dirs'
              /\ FilesIn(fs', request.dir) = {}
        /\ pc' = "aborted" =>
              /\ pc = "hygiene_call" /\ i = 1
              /\ request.dir \notin dirs
        /\ BYSTANDER \in DOMAIN fs'
      ]_vars

\* remove_slurm_files has returned twice from a directory that is there
\* and empty
C22_Witness ==
    /\ pc = "hygiene_done" /\ i = MaxHygieneCalls + 1
    /\ request.function = REMOVE_SLURM_FILES
    /\ request.dir = OUTFILES_DIR
    /\ OUTFILES_DIR \in dirs
    /\ FilesIn(fs, OUTFILES_DIR) = {}

\* C23 as stated (hygiene clears contents only): with remove_temp_files and
\* with remove_slurm_files alike, the directory exists in every state
\* during and after hygiene.
C23_DirectoryAlwaysExists == HygieneStarted => request.dir \in dirs

\* C23 amended: remove_temp_files never removes the directory, which exists
\* in every state during and after it; remove_slurm_files removes the
\* directory with its contents and makes it again, so the directory exists
\* after it but not between the two steps.
C23_HygieneClearsContents ==
    /\ (HygieneStarted /\ pc # "mkdir") => request.dir \in dirs
    /\ pc = "mkdir" =>
          /\ request.function \in {REMOVE_SLURM_FILES, TEST_CONFIGURATION}
          /\ request.dir \notin dirs
          /\ FilesIn(fs, request.dir) = {}
    /\ request.function = REMOVE_TEMP_FILES => pc # "mkdir"

\* remove_temp_files has removed all but the last file of the directory
C23_Witness ==
    /\ pc = "remove"
    /\ request.function = REMOVE_TEMP_FILES
    /\ Len(request.files) = 1
    /\ FilesIn(fs, request.dir) = {request.files[1]}
    /\ request.dir \in dirs

\* the record files of the results directory
RecordFiles(f) == {q \in FilesIn(f, RESULTS_DIR) : Last(q) = "yml"}

\* C24 (write-once records): a record file that is there is never written
\* again by another writer: a worker that finds a record for its key does
\* not overwrite it, whatever its print_stats.
C24_WriteOnceRecords ==
    [][ \A q \in RecordFiles(fs) \cap RecordFiles(fs') :
           fs'[q] # fs[q] => fs'[q].writer = fs[q].writer
      ]_vars

\* results_dir/{instance}__seed__{r}__permute__{p}.yml of a worker job
OwnRecordPath(job) ==
    <<job.args[1]>> \o job.args[3]
        \o <<"__seed__">> \o str_int(job.args[4])
        \o <<"__permute__">> \o str_int(job.args[5]) \o <<".", "yml">>

\* C25 (worker output contract): a record file a worker job creates or
\* changes is the one at results_dir/{instance}__seed__{r}__permute__{p}.yml
\* of its own arguments, so a job writes at most one; and a record file an
\* invocation has left when it is over holds status, num_nodes, solve_time
\* and presolve_time.
C25_WorkerOutputContract ==
    [][ /\ \A q \in RecordFiles(fs') :
              (q \notin DOMAIN fs \/ fs'[q] # fs[q]) =>
                 /\ fs'[q].writer \in JobIds
                 /\ q = OwnRecordPath(jobs[fs'[q].writer])
        /\ \A q1, q2 \in RecordFiles(fs') :
              (fs'[q1].writer = fs'[q2].writer /\ fs'[q1].writer # 0) => q1 = q2
        /\ \A q \in RecordFiles(fs') :
              (fs'[q].writer # 0 /\ fs'[q].writer \notin DOMAIN jobs') =>
                 /\ fs'[q].complete
                 /\ fs'[q].data.status \in {"optimal", "timelimit"}
      ]_vars

\* C25, the part that holds: the path and the number of records as above,
\* and the fields in every record whose dump was carried out.
C25_RecordPathAndDumpedFields ==
    [][ /\ \A q \in RecordFiles(fs') :
              (q \notin DOMAIN fs \/ fs'[q] # fs[q]) =>
                 /\ fs'[q].writer \in JobIds
                 /\ q = OwnRecordPath(jobs[fs'[q].writer])
        /\ \A q1, q2 \in RecordFiles(fs') :
              (fs'[q1].writer = fs'[q2].writer /\ fs'[q1].writer # 0) => q1 = q2
        /\ \A q \in RecordFiles(fs') :
              (fs'[q].writer # 0 /\ fs'[q].complete) =>
                 fs'[q].data.status \in {"optimal", "timelimit"}
        /\ \A id \in JobIds \cap DOMAIN jobs' :
              (/\ jobs[id].step = "open" /\ jobs'[id].step = "dumped"
               /\ OwnRecordPath(jobs[id]) \in DOMAIN fs
               /\ fs[OwnRecordPath(jobs[id])].writer = id) =>
                 /\ fs'[OwnRecordPath(jobs[id])].complete
                 /\ fs'[OwnRecordPath(jobs[id])].data = jobs[id].data
      ]_vars

\* C26 (no cancellation): no step of the controller takes a job off the
\* scheduler or changes one, and a pending job never leaves the scheduler
\* before it has run; after the controller has aborted on a failed
\* submission, the jobs it had submitted are still there and the scheduler
\* can still start them.
C26_NoCancellation ==
    [][ /\ ctlVars' # ctlVars =>
              \A id \in JobIds : id \in DOMAIN jobs' /\ jobs'[id] = jobs[id]
        /\ \A id \in JobIds : jobs[id].state = "pending" => id \in DOMAIN jobs'
        /\ (pc' = "aborted" /\ \E id \in DOMAIN jobs' : jobs'[id].state = "pending") =>
              (ENABLED (\E id \in JobIds : StartJob(id)))'
      ]_vars

\* the controller has aborted on its second submission, and the worker it
\* had submitted first has written its record all the same
C26_Witness ==
    /\ pc = "aborted" /\ result.raised
    /\ Len(slurm_job_ids) = 1
    /\ \E q \in RecordFiles(fs) :
          /\ fs[q].writer = slurm_job_ids[1]
          /\ fs[q].run = THIS_RUN
          /\ fs[q].complete

\* the predicate as the claim gives it
ReferencePredicate(record) ==
    /\ record.status = "optimal"
    /\ 50 <= record.num_nodes /\ record.num_nodes <= 20000
    /\ record.solve_time >= 5
    /\ record.presolve_time <= 10

\* C27 (exact filter predicate): in a filter phase the collection accepts a
\* candidate, and the phase returns it, if and only if its record file is
\* there and has status 'optimal', 50 <= num_nodes <= 20000, solve_time >= 5
\* and presolve_time <= 10.
C27_ExactFilterPredicate ==
    [][ /\ (CollectStep /\ pc' # "aborted") =>
              ((good_instance_ids' = Append(good_instance_ids, i))
                  <=> (/\ RecordPath(i) \in DOMAIN fs
                       /\ ReferencePredicate(fs[RecordPath(i)].data)))
        /\ EmitStep =>
              \A k \in 1..Len(instance_paths) :
                 (\E j \in 1..Len(instance_paths') : instance_paths'[j] = instance_paths[k])
                    <=> (/\ RecordPath(k) \in DOMAIN fs
                         /\ ReferencePredicate(fs[RecordPath(k)].data))
      ]_vars

\* of two candidates the one with 20000 nodes, solve time 5 and presolve
\* time 10 was returned, the one with 20001 nodes was not
C27_Witness ==
    /\ pc \in {"hygiene_results", "done"}
    /\ instance_paths = <<FilterCandidate(1)>>
    /\ FilterRecord(1) \in DOMAIN fs /\ FilterRecord(2) \in DOMAIN fs
    /\ fs[FilterRecord(1)].data =
          [status |-> "optimal", num_nodes |-> 20000, solve_time |-> 5, presolve_time |-> 10]
    /\ fs[FilterRecord(2)].data =
          [status |-> "optimal", num_nodes |-> 20001, solve_time |-> 5, presolve_time |-> 10]


\* the controller is about to submit the sentinel of its phase
AtSentinelSubmission == pc \in {"wait", "test_wait"}

\* the controller polls for the marker of its phase
AtBarrier == pc \in {"poll", "test_poll"}

\* C28 (No stale marker): in every phase of the subset pipeline and in
\* test_configuration the marker file does not exist when the sentinel is
\* submitted, and a marker that exists while the controller polls was
\* written by the sentinel that this phase of this run submitted, so no
\* marker left by an earlier phase or found in outfiles_dir at the start
\* opens the barrier.
C28_NoStaleMarker ==
    /\ AtSentinelSubmission => ~isfile(SafetyTxt(OUTFILES_DIR))
    /\ (AtBarrier /\ isfile(SafetyTxt(OUTFILES_DIR))) =>
          /\ fs[SafetyTxt(OUTFILES_DIR)].writer = sentinel_id
          /\ fs[SafetyTxt(OUTFILES_DIR)].run = THIS_RUN
          /\ fs[SafetyTxt(OUTFILES_DIR)].phase = phase

\* the barrier of a later phase of the pipeline is open: the marker of the
\* earlier phase was cleared and this phase's sentinel wrote its own
C28_Witness ==
    /\ pc = "poll"
    /\ phase >= 2
    /\ isfile(SafetyTxt(OUTFILES_DIR))

\* the barrier of test_configuration is open
C28_WitnessTest ==
    /\ pc = "test_poll"
    /\ isfile(SafetyTxt(OUTFILES_DIR))


\* C29 (Complete records at collection): a record file that the collection
\* step reads is a complete record, so a worker ended while writing leaves
\* nothing that makes the collection step raise.
C29_CompleteRecordsAtCollection ==
    /\ \A entry \in readLog : entry.complete
    /\ (pc = "collect" /\ isfile(CandidateYml(i))) => Verdict(fs, CandidateYml(i)) # "raise"


\* C30 (Distinct result keys): distinct candidates of a phase have distinct
\* record paths, and no two worker jobs of one phase of one run write the
\* same record file.
C30_DistinctResultKeys ==
    /\ \A a, b \in 1..Len(instance_paths) :
          instance_paths[a] # instance_paths[b] => CandidateYml(a) # CandidateYml(b)
    /\ \A j, k \in JobIds :
          (/\ j # k
           /\ IsWorker(jobs[j]) /\ IsWorker(jobs[k])
           /\ jobs[j].run = jobs[k].run /\ jobs[j].phase = jobs[k].phase)
          => WorkerYmlFile(jobs[j]) # WorkerYmlFile(jobs[k])


\* the solution file of the k-th candidate of the phase
SolutionOf(k) == SolutionPath(SOLUTION_DIR, Instance(instance_paths[k]))

\* In a run that found no job on the scheduler, the first call submits one
\* worker for each listed instance and its sentinel, and the second call
\* then submits the worker of its k-th candidate, which is also the k-th
\* candidate of the third call.
OwnSolutionWorker(k) == Len(InitialCandidates) + 1 + k

\* the candidates accepted so far by the collection
Accepted == {good_instance_ids[k] : k \in 1..Len(good_instance_ids)}

\* no two candidates of the phase have the same instance name
DistinctNames ==
    \A a, b \in 1..Len(instance_paths) :
        a # b => Instance(instance_paths[a]) # Instance(instance_paths[b])

\* the solution file of candidate k was written by its own worker of the
\* second call of this run
OwnSolution(k) ==
    /\ isfile(SolutionOf(k))
    /\ fs[SolutionOf(k)].run = THIS_RUN
    /\ fs[SolutionOf(k)].phase = 2
    /\ fs[SolutionOf(k)].writer = OwnSolutionWorker(k)

\* C31 (Solution provenance across phases): every candidate the third call
\* accepts, and so every candidate of the final set, has a solution file
\* written by its own worker of the second call of the same run; a
\* candidate without a solution file has no record in the third call and is
\* left out without an error.
C31_SolutionProvenance ==
    /\ (phase = 3 /\ pc \in {"collect", "emit"}) => \A k \in Accepted : OwnSolution(k)
    /\ (phase = 3 /\ pc = "collect" /\ ~isfile(SolutionOf(i))) =>
          /\ ~isfile(CandidateYml(i))
          /\ Verdict(fs, CandidateYml(i)) = "skip"

\* the same for candidate sets whose instance names are pairwise distinct
C31_ProvenanceOfDistinctNames == DistinctNames => C31_SolutionProvenance

\* the third call has accepted a candidate of distinct names, and another
\* one, whose worker of the second call left no solution, is being skipped
C31_DistinctNamesReached ==
    /\ phase = 3 /\ pc = "collect" /\ i = 2
    /\ DistinctNames
    /\ Accepted = {1}
    /\ ~isfile(SolutionOf(2))


\* the files of directory d with their contents
Contents(f, d) == [q \in FilesIn(f, d) |-> f[q]]

\* the copy of an instance file in the subset directory
SubsetCopy(instance_path) == join(INSTANCE_SUBSET_DIR, InstanceFile(instance_path))

\* C32 (Subset directory contents): when a filtering call returns, the
\* subset directory holds one copy of the instance file of each returned
\* candidate, equal to the original, and no other file; no step of the
\* solution-generating call changes the subset directory; and no step at all
\* removes, adds or changes a file of the instance directory.
C32_SubsetDirectoryContents ==
    [][ /\ EmitStep =>
              /\ FilesIn(fs', INSTANCE_SUBSET_DIR)
                    = {SubsetCopy(Returned[k]) : k \in 1..Len(Returned)}
              /\ Cardinality(FilesIn(fs', INSTANCE_SUBSET_DIR)) = Len(Returned)
              /\ \A k \in 1..Len(Returned) : fs'[SubsetCopy(Returned[k])] = fs[Returned[k]]
        /\ (phase = 2 /\ pc # "done") =>
              Contents(fs', INSTANCE_SUBSET_DIR) = Contents(fs, INSTANCE_SUBSET_DIR)
        /\ Contents(fs', INSTANCE_DIR) = Contents(fs, INSTANCE_DIR)
      ]_vars

\* the third call is about to return one candidate while the subset
\* directory still holds the two copies the first call left, which the
\* second call did not touch
C32_Witness ==
    /\ phase = 3 /\ pc = "emit"
    /\ Len(good_instance_ids) = 1
    /\ Cardinality(FilesIn(fs, INSTANCE_SUBSET_DIR)) = 2


RECURSIVE Flatten(_)
Flatten(seqs) == IF Len(seqs) = 0 THEN <<>> ELSE Head(seqs) \o Flatten(Tail(seqs))

\* the (instance, random seed, permutation seed) combinations in the order
\* of three nested loops: permutation seeds, random seeds, instances
Combinations ==
    Flatten([pk \in 1..Len(PERMUTATION_SEEDS) |->
        Flatten([rk \in 1..Len(RANDOM_SEEDS) |->
            [k \in 1..Len(instance_paths) |->
                <<instance_paths[k], RANDOM_SEEDS[rk], PERMUTATION_SEEDS[pk]>>]])])

\* P * R * I
FanOut == Len(PERMUTATION_SEEDS) * Len(RANDOM_SEEDS) * Len(instance_paths)

\* the call of test_configuration has gone through its submissions
FannedOut == pc \in {"test_poll", "test_done"}

\* C33 (test_configuration fan-out): as long as no submission fails, the
\* scheduler's k-th job, for k up to P*R*I, is a worker job without
\* dependencies for the k-th of the P*R*I pairwise distinct combinations and
\* its handle is the k-th handle kept; the next job is the sentinel, whose
\* dependency list is these P*R*I handles; there is no further job; and
\* the call has returned only with the sentinel's marker present.
C33_TestConfigurationFanOut ==
    pc \in {"test_submit", "test_wait", "test_poll", "test_done"} =>
        /\ pc \in {"test_submit", "test_wait"} =>
              /\ Len(Combinations) = FanOut
              /\ \A a, b \in 1..FanOut : a # b => Combinations[a] # Combinations[b]
        /\ pc = "test_submit" => i <= FanOut /\ Len(slurm_job_ids) = i - 1
        /\ pc # "test_submit" => Len(slurm_job_ids) = FanOut
        /\ \A k \in 1..Len(slurm_job_ids) : slurm_job_ids[k] = k
        /\ next_id = Len(slurm_job_ids) + (IF FannedOut THEN 2 ELSE 1)
        /\ \A id \in JobIds :
              IF id <= FanOut
              THEN /\ IsWorker(jobs[id])
                   /\ <<jobs[id].args[2], jobs[id].args[4], jobs[id].args[5]>> = Combinations[id]
                   /\ jobs[id].args[3] = Instance(jobs[id].args[2])
                   /\ jobs[id].dependencies = <<>>
              ELSE /\ id = FanOut + 1
                   /\ IsSentinel(jobs[id])
                   /\ jobs[id].dependencies = slurm_job_ids
        /\ FannedOut => sentinel_id = FanOut + 1
        /\ pc = "test_done" =>
              /\ MarkerExists
              /\ fs[SafetyTxt(OUTFILES_DIR)].writer = sentinel_id

\* test_configuration has returned after four worker jobs, for two
\* instances and two random seeds, and the sentinel
C33_Witness ==
    /\ pc = "test_done"
    /\ Len(instance_paths) = 2
    /\ FanOut = 4
    /\ next_id = 6
    /\ MarkerExists

=============================================================================
